---- MODULE Spec2Model ----
(***************************************************************************)
(* A model of the wslogger package (src/logger.go, the current revision,   *)
(* lines 1-539).                                                           *)
(*                                                                         *)
(* A Go string is modelled as the sequence of its bytes; a byte is written *)
(* as a one-character TLA+ string, except the escape byte 0x1b, which is   *)
(* written "ESC".  Every string operation of the code (strings.ReplaceAll, *)
(* strings.Contains, strings.TrimRight, the slice formatted[:len-1],       *)
(* filepath.Base, fmt.Sprint, fmt.Sprintf, json.Marshal) is computed on    *)
(* these byte sequences the way the Go library computes it.                *)
(***************************************************************************)
EXTENDS Integers, Sequences, FiniteSets, TLC

(***************************************************************************)
(* Bounds of the model.                                                    *)
(***************************************************************************)
\* the number of log calls made on one logger in one behaviour
MaxCalls == 2
\* the number of concurrently spawned tasks sharing one logger
NumTasks == 2

(***************************************************************************)
(* Byte strings.                                                           *)
(***************************************************************************)
ESC == "ESC"

\* strings.HasPrefix(s[i-1:], p), with i a 1-based position
HasPrefixAt(s, p, i) ==
    /\ i + Len(p) - 1 <= Len(s)
    /\ SubSeq(s, i, i + Len(p) - 1) = p

HasPrefix(s, p) == HasPrefixAt(s, p, 1)

\* strings.Contains(s, sub)
Contains(s, sub) ==
    \E i \in 1..(Len(s) - Len(sub) + 1) : HasPrefixAt(s, sub, i)

\* strings.Index(s[from-1:], sub): the first position at or after from
\* where sub occurs, 0 when there is none
IndexFrom(s, sub, from) ==
    LET at == {i \in from..(Len(s) - Len(sub) + 1) : HasPrefixAt(s, sub, i)}
    IN  IF at = {} THEN 0
        ELSE CHOOSE i \in at : \A j \in at : i <= j

\* strings.ReplaceAll(s, old, new) for a non-empty old: the non-overlapping
\* occurrences of old, found left to right, are replaced by new
RECURSIVE ReplaceFrom(_, _, _, _)
ReplaceFrom(s, old, new, from) ==
    LET i == IndexFrom(s, old, from)
    IN  IF i = 0 THEN SubSeq(s, from, Len(s))
        ELSE SubSeq(s, from, i - 1) \o new
             \o ReplaceFrom(s, old, new, i + Len(old))

ReplaceAll(s, old, new) == ReplaceFrom(s, old, new, 1)

\* strings.TrimRight(s, " ")
TrimRightSpace(s) ==
    LET keep == {i \in 1..Len(s) : s[i] # " "}
    IN  IF keep = {} THEN <<>>
        ELSE SubSeq(s, 1, CHOOSE i \in keep : \A j \in keep : j <= i)

\* strings.TrimPrefix(s, p)
TrimPrefix(s, p) ==
    IF HasPrefix(s, p) THEN SubSeq(s, Len(p) + 1, Len(s)) ELSE s

\* strings.Join(parts, sep)
RECURSIVE Join(_, _)
Join(parts, sep) ==
    IF Len(parts) = 0 THEN <<>>
    ELSE IF Len(parts) = 1 THEN parts[1]
    ELSE parts[1] \o sep \o Join(Tail(parts), sep)

\* strings.LastIndex(s, c) for a single byte c, 1-based, 0 when absent
LastIndexByte(s, c) ==
    IF \E i \in 1..Len(s) : s[i] = c
    THEN CHOOSE i \in 1..Len(s) :
            /\ s[i] = c
            /\ \A j \in (i + 1)..Len(s) : s[j] # c
    ELSE 0

\* the decimal digits, and strconv.Itoa of a natural number
Digits == <<"0", "1", "2", "3", "4", "5", "6", "7", "8", "9">>

RECURSIVE Itoa(_)
Itoa(n) ==
    IF n < 10 THEN <<Digits[n + 1]>>
    ELSE Itoa(n \div 10) \o <<Digits[(n % 10) + 1]>>

\* the hexadecimal form of one byte value, as hex.EncodeToString writes it
HexDigits ==
    <<"0", "1", "2", "3", "4", "5", "6", "7",
      "8", "9", "a", "b", "c", "d", "e", "f">>

HexByte(b) == <<HexDigits[(b \div 16) + 1], HexDigits[(b % 16) + 1]>>

HexString(bytes) ==
    [i \in 1..(2 * Len(bytes)) |-> HexByte(bytes[(i + 1) \div 2])[2 - (i % 2)]]

\* filepath.Base(path): trailing separators are dropped, the last element
\* is returned; "" gives ".", a path of separators only gives "/"
TrimRightSlash(s) ==
    LET keep == {i \in 1..Len(s) : s[i] # "/"}
    IN  IF keep = {} THEN <<>>
        ELSE SubSeq(s, 1, CHOOSE i \in keep : \A j \in keep : j <= i)

Base(path) ==
    IF Len(path) = 0 THEN <<".">>
    ELSE LET p == TrimRightSlash(path)
         IN  IF Len(p) = 0 THEN <<"/">>
             ELSE SubSeq(p, LastIndexByte(p, "/") + 1, Len(p))

(***************************************************************************)
(* Constants of the package.                                               *)
(***************************************************************************)
\* "[{time}] [{app_name}] [{caller}] [{level}] {message} {extra}"
defaultFormat ==
    <<"[", "{", "t", "i", "m", "e", "}", "]", " ",
      "[", "{", "a", "p", "p", "_", "n", "a", "m", "e", "}", "]", " ",
      "[", "{", "c", "a", "l", "l", "e", "r", "}", "]", " ",
      "[", "{", "l", "e", "v", "e", "l", "}", "]", " ",
      "{", "m", "e", "s", "s", "a", "g", "e", "}", " ",
      "{", "e", "x", "t", "r", "a", "}">>

defaultAppName == <<"M", "y", "A", "p", "p">>

colorReset == <<ESC, "[", "0", "m">>
colorGreen == <<ESC, "[", "3", "2", "m">>
colorYellow == <<ESC, "[", "3", "3", "m">>
colorRed == <<ESC, "[", "3", "1", "m">>
colorCyan == <<ESC, "[", "3", "6", "m">>

\* the level names the public methods pass to logWithArgs
INFO == <<"I", "N", "F", "O">>
WARN == <<"W", "A", "R", "N">>
ERROR == <<"E", "R", "R", "O", "R">>
DEBUG == <<"D", "E", "B", "U", "G">>

\* the placeholders of a template
PhTime == <<"{", "t", "i", "m", "e", "}">>
PhAppName == <<"{", "a", "p", "p", "_", "n", "a", "m", "e", "}">>
PhCaller == <<"{", "c", "a", "l", "l", "e", "r", "}">>
PhLevel == <<"{", "l", "e", "v", "e", "l", "}">>
PhMessage == <<"{", "m", "e", "s", "s", "a", "g", "e", "}">>
PhTraceID == <<"{", "t", "r", "a", "c", "e", "_", "i", "d", "}">>
PhSpanID == <<"{", "s", "p", "a", "n", "_", "i", "d", "}">>
PhExtra == <<"{", "e", "x", "t", "r", "a", "}">>

\* the keys of the replacements map of formatMessage
ReplacementKeys ==
    {PhTime, PhAppName, PhCaller, PhLevel, PhMessage, PhTraceID, PhSpanID}

KeyTraceID == <<"t", "r", "a", "c", "e", "_", "i", "d">>
KeySpanID == <<"s", "p", "a", "n", "_", "i", "d">>
GoroutineCallerKey ==
    <<"g", "o", "r", "o", "u", "t", "i", "n", "e", "_",
      "c", "a", "l", "l", "e", "r">>
Unknown == <<"u", "n", "k", "n", "o", "w", "n">>

(***************************************************************************)
(* Values of type any, fmt.Sprint, fmt.Sprintf and fmt.Errorf.             *)
(* An argument is a string, a non-negative int or an error (errors.New).   *)
(***************************************************************************)
StrVal(s) == [t |-> "string", s |-> s, n |-> 0]
IntVal(n) == [t |-> "int", s |-> <<>>, n |-> n]
ErrVal(s) == [t |-> "error", s |-> s, n |-> 0]

\* fmt.Sprint(v) of one operand
Sprint(v) == IF v.t = "int" THEN Itoa(v.n) ELSE v.s

\* the type name fmt prints for an operand under a wrong verb
TypeName(v) ==
    IF v.t = "int" THEN <<"i", "n", "t">>
    ELSE IF v.t = "string" THEN <<"s", "t", "r", "i", "n", "g">>
    ELSE <<"*", "e", "r", "r", "o", "r", "s", ".",
           "e", "r", "r", "o", "r", "S", "t", "r", "i", "n", "g">>

\* "%!c(type=value)": what fmt prints for an operand its verb does not take
BadVerb(c, v) ==
    <<"%", "!", c, "(">> \o TypeName(v) \o <<"=">> \o Sprint(v) \o <<")">>

\* one operand under the verb c; wrap is TRUE in fmt.Errorf, where %w
\* prints an error operand as %v does
VerbOut(c, v, wrap) ==
    IF c = "v" THEN Sprint(v)
    ELSE IF c = "s" THEN (IF v.t = "int" THEN BadVerb(c, v) ELSE v.s)
    ELSE IF c = "d" THEN (IF v.t = "int" THEN Itoa(v.n) ELSE BadVerb(c, v))
    ELSE IF c = "w" /\ wrap /\ v.t = "error" THEN v.s
    ELSE BadVerb(c, v)

\* "%!(EXTRA type=value, ...)": the operands no verb consumed
RECURSIVE ExtraOperands(_, _)
ExtraOperands(args, a) ==
    TypeName(args[a]) \o <<"=">> \o Sprint(args[a]) \o
    (IF a < Len(args)
     THEN <<",", " ">> \o ExtraOperands(args, a + 1)
     ELSE <<")">>)

RECURSIVE DoPrintf(_, _, _, _, _)
DoPrintf(format, i, args, a, wrap) ==
    IF i > Len(format)
    THEN IF a <= Len(args)
         THEN <<"%", "!", "(", "E", "X", "T", "R", "A", " ">> \o
              ExtraOperands(args, a)
         ELSE <<>>
    ELSE IF format[i] # "%"
    THEN <<format[i]>> \o DoPrintf(format, i + 1, args, a, wrap)
    ELSE IF i = Len(format)
    THEN <<"%", "!", "(", "N", "O", "V", "E", "R", "B", ")">>
    ELSE IF format[i + 1] = "%"
    THEN <<"%">> \o DoPrintf(format, i + 2, args, a, wrap)
    ELSE IF a > Len(args)
    THEN <<"%", "!", format[i + 1], "(", "M", "I", "S", "S", "I", "N", "G", ")">>
         \o DoPrintf(format, i + 2, args, a, wrap)
    ELSE VerbOut(format[i + 1], args[a], wrap)
         \o DoPrintf(format, i + 2, args, a + 1, wrap)

Sprintf(format, args) == DoPrintf(format, 1, args, 1, FALSE)

\* fmt.Errorf(format, args...).Error()
FmtErrorf(format, args) == DoPrintf(format, 1, args, 1, TRUE)

\* the message of the f variants (Infof, WarnCtxf, ...)
FormattedMessage(format, args) ==
    IF Contains(format, <<"%", "w">>)
    THEN FmtErrorf(format, args)
    ELSE Sprintf(format, args)

(***************************************************************************)
(* parseLogArgs and formatValue.                                           *)
(***************************************************************************)
formatValue(v) ==
    IF v.t = "string"
    THEN IF Contains(v.s, <<" ">>)
         THEN <<"\"">> \o v.s \o <<"\"">>
         ELSE v.s
    ELSE Sprint(v)

\* parseLogArgs with the loop bound i+2 < n: the last pair is lost
parseLogArgsShort(args) ==
    IF Len(args) = 0
    THEN [msg |-> <<>>, extras |-> <<>>]
    ELSE [msg |-> Sprint(args[1]),
          extras |-> [k \in 1..((Len(args) - 2) \div 2) |->
                        [key |-> Sprint(args[2 * k]),
                         value |-> formatValue(args[2 * k + 1])]]]

\* parseLogArgs with the loop bound i < n: an unpaired last argument is
\* kept as a key with an empty value
parseLogArgsUnpaired(args) ==
    IF Len(args) = 0
    THEN [msg |-> <<>>, extras |-> <<>>]
    ELSE [msg |-> Sprint(args[1]),
          extras |-> [k \in 1..(Len(args) \div 2) |->
                        [key |-> Sprint(args[2 * k]),
                         value |-> IF 2 * k + 1 <= Len(args)
                                   THEN formatValue(args[2 * k + 1])
                                   ELSE <<>>]]]

\* the pairs (args[i], args[i+1]) for i = 1, 3, ... with i+1 < n (0-based)
parseLogArgs(args) ==
    IF Len(args) = 0
    THEN [msg |-> <<>>, extras |-> <<>>]
    ELSE [msg |-> Sprint(args[1]),
          extras |-> [k \in 1..((Len(args) - 1) \div 2) |->
                        [key |-> Sprint(args[2 * k]),
                         value |-> formatValue(args[2 * k + 1])]]]

(***************************************************************************)
(* The template formatter.                                                 *)
(***************************************************************************)
getColorCode(level) ==
    IF level = INFO THEN colorGreen
    ELSE IF level = WARN THEN colorYellow
    ELSE IF level = ERROR THEN colorRed
    ELSE IF level = DEBUG THEN colorCyan
    ELSE <<>>

\* t.Format("2006-01-02 15:04:05") of a time t, given as the seconds since
\* midnight of the day the program runs on
TwoDigits(n) == <<Digits[(n \div 10) + 1], Digits[(n % 10) + 1]>>

TimeFormat(t) ==
    <<"2", "0", "2", "5", "-", "0", "8", "-", "1", "8", " ">>
    \o TwoDigits((t \div 3600) % 24) \o <<":">>
    \o TwoDigits((t \div 60) % 60) \o <<":">>
    \o TwoDigits(t % 60)

\* level, traceID and spanID as formatMessage rewrites them before it
\* builds the replacements map (logger.go 288-310)
ColoredLevel(l, level) ==
    IF l.color THEN getColorCode(level) \o level \o colorReset ELSE level

TraceField(l, level, key, id) ==
    IF id = <<>> THEN <<>>
    ELSE LET val == TrimPrefix(id, key \o <<"=">>)
         IN  IF l.color
             THEN getColorCode(level) \o key \o getColorCode(level)
                  \o colorReset \o <<"=">> \o val
             ELSE key \o <<"=">> \o val

\* the replacements map of formatMessage (logger.go 312-320)
Replacements(l, level, msg, t, traceID, spanID, caller) ==
    [k \in ReplacementKeys |->
        IF k = PhTime THEN TimeFormat(t)
        ELSE IF k = PhAppName THEN l.appName
        ELSE IF k = PhCaller THEN caller
        ELSE IF k = PhLevel THEN ColoredLevel(l, level)
        ELSE IF k = PhMessage THEN msg
        ELSE IF k = PhTraceID THEN TraceField(l, level, KeyTraceID, traceID)
        ELSE TraceField(l, level, KeySpanID, spanID)]

\* the loop "for placeholder, value := range replacements" taken in the
\* iteration order `order` (Go leaves the order of a map range unspecified)
RECURSIVE ApplyReplacements(_, _, _)
ApplyReplacements(formatted, replacements, order) ==
    IF Len(order) = 0 THEN formatted
    ELSE LET value == replacements[order[1]]
         IN  ApplyReplacements(
                 IF value = <<>> THEN formatted
                 ELSE ReplaceAll(formatted, order[1], value),
                 replacements, Tail(order))

\* all sequences that list every element of S once
RECURSIVE Perms(_)
Perms(S) ==
    IF S = {} THEN {<<>>}
    ELSE UNION {{<<x>> \o p : p \in Perms(S \ {x})} : x \in S}

\* some "{" of s is followed by another "{" before any "}"
NestedBrace(s) ==
    \E i, j \in 1..Len(s) :
        /\ i < j
        /\ s[i] = "{"
        /\ s[j] = "{"
        /\ \A m \in (i + 1)..(j - 1) : s[m] # "}"

\* The iteration orders of the replacements map that can differ in their
\* result.  A key with an empty value is skipped by the loop, so its place
\* is immaterial.  When no value holds a "{" and the template nests no
\* "{", no replacement creates or removes an occurrence of another
\* placeholder, every order gives the same line and one order stands for
\* all; otherwise every order of the keys with a value is taken.
CanonicalOrder ==
    <<PhTime, PhAppName, PhCaller, PhLevel, PhMessage, PhTraceID, PhSpanID>>

MapOrders(format, replacements) ==
    LET full == {k \in ReplacementKeys : replacements[k] # <<>>}
        empty == SelectSeq(CanonicalOrder, LAMBDA k : replacements[k] = <<>>)
    IN  IF /\ ~NestedBrace(format)
           /\ \A k \in full : ~Contains(replacements[k], <<"{">>)
        THEN {CanonicalOrder}
        ELSE {empty \o p : p \in Perms(full)}

\* formatMessage (logger.go 285-362), the placeholders replaced in the map
\* iteration order `order`.  The result is the line, or a panic: the slice
\* formatted[:len(formatted)-1] of an empty string is out of range.
formatMessage(l, level, msg, extra, t, traceID, spanID, caller, order) ==
    LET repl == Replacements(l, level, msg, t, traceID, spanID, caller)
        trace == repl[PhTraceID]
        span == repl[PhSpanID]
        replaced == ApplyReplacements(l.format, repl, order)
        noExtra == ReplaceAll(replaced, PhExtra, <<>>)
        formatted ==
            IF extra # <<>>
            THEN ReplaceAll(replaced, PhExtra, extra)
            ELSE SubSeq(noExtra, 1, Len(noExtra) - 1)
        hasTrace == Contains(formatted, KeyTraceID \o <<"=">>)
        hasSpan == Contains(formatted, KeySpanID \o <<"=">>)
        appendFields ==
            (IF ~hasTrace /\ trace # <<>> THEN <<trace>> ELSE <<>>)
            \o (IF ~hasSpan /\ span # <<>> THEN <<span>> ELSE <<>>)
        trimmed == TrimRightSpace(formatted)
    IN  IF extra = <<>> /\ Len(noExtra) = 0
        THEN [panic |-> TRUE, s |-> <<>>]
        ELSE IF (trace # <<>> \/ span # <<>>) /\ Len(appendFields) > 0
        THEN [panic |-> FALSE,
              s |-> (IF Len(trimmed) > 0 /\ trimmed[Len(trimmed)] # " "
                     THEN trimmed \o <<" ">>
                     ELSE trimmed)
                    \o Join(appendFields, <<" ">>)]
        ELSE [panic |-> FALSE, s |-> formatted]

(***************************************************************************)
(* The logger and its options.                                             *)
(* An io.Writer is the sequence of the sinks a write to it reaches, in     *)
(* order: one sink for a plain writer, several for an io.MultiWriter.  The *)
(* nil writer reaches nothing; a nil writer inside a MultiWriter is the    *)
(* destination "nil".                                                      *)
(***************************************************************************)
NilWriter == <<>>
Stdout == <<"stdout">>
Buffer == <<"buf">>
\* the lumberjack.Logger of a file name
FileWriter(filename) == <<filename>>

WithWriter(w) == [op |-> "WithWriter", w |-> w]
WithAppName(name) == [op |-> "WithAppName", name |-> name]
WithColor(enable) == [op |-> "WithColor", enable |-> enable]
WithJSON(enable) == [op |-> "WithJSON", enable |-> enable]
WithFormat(format) == [op |-> "WithFormat", format |-> format]
WithSpanAttributes(enable) == [op |-> "WithSpanAttributes", enable |-> enable]
WithRotatingFile(filename) == [op |-> "WithRotatingFile", filename |-> filename]
WithMultiWriterTo(w, filename) ==
    [op |-> "WithMultiWriterTo", w |-> w, filename |-> filename]
WithMultiWriter(filename) == WithMultiWriterTo(Stdout, filename)

\* the options with a WithWriter that assigns its writer also when it is nil
ApplyOptionNilWriter(opt, l) ==
    IF opt.op = "WithWriter" THEN [l EXCEPT !.writer = opt.w]
    ELSE IF opt.op = "WithAppName" THEN [l EXCEPT !.appName = opt.name]
    ELSE IF opt.op = "WithColor" THEN [l EXCEPT !.color = opt.enable]
    ELSE IF opt.op = "WithJSON" THEN [l EXCEPT !.jsonMode = opt.enable]
    ELSE IF opt.op = "WithFormat" THEN [l EXCEPT !.format = opt.format]
    ELSE IF opt.op = "WithSpanAttributes"
    THEN [l EXCEPT !.includeSpanAttrs = opt.enable]
    ELSE IF opt.op = "WithRotatingFile"
    THEN [l EXCEPT !.writer = FileWriter(opt.filename)]
    ELSE [l EXCEPT !.writer =
            (IF opt.w = NilWriter THEN <<"nil">> ELSE opt.w)
            \o FileWriter(opt.filename)]

\* opt(l): the closure an option returns, applied to the logger l
ApplyOption(opt, l) ==
    IF opt.op = "WithWriter"
    THEN IF opt.w # NilWriter THEN [l EXCEPT !.writer = opt.w] ELSE l
    ELSE IF opt.op = "WithAppName" THEN [l EXCEPT !.appName = opt.name]
    ELSE IF opt.op = "WithColor" THEN [l EXCEPT !.color = opt.enable]
    ELSE IF opt.op = "WithJSON" THEN [l EXCEPT !.jsonMode = opt.enable]
    ELSE IF opt.op = "WithFormat" THEN [l EXCEPT !.format = opt.format]
    ELSE IF opt.op = "WithSpanAttributes"
    THEN [l EXCEPT !.includeSpanAttrs = opt.enable]
    ELSE IF opt.op = "WithRotatingFile"
    THEN [l EXCEPT !.writer = FileWriter(opt.filename)]
    ELSE [l EXCEPT !.writer =
            (IF opt.w = NilWriter THEN <<"nil">> ELSE opt.w)
            \o FileWriter(opt.filename)]

RECURSIVE ApplyOptions(_, _)
ApplyOptions(opts, l) ==
    IF Len(opts) = 0 THEN l
    ELSE ApplyOptions(Tail(opts), ApplyOption(opts[1], l))

NewLogger(opts) ==
    ApplyOptions(opts,
        [writer |-> Stdout,
         format |-> defaultFormat,
         appName |-> defaultAppName,
         color |-> FALSE,
         jsonMode |-> FALSE,
         includeSpanAttrs |-> FALSE])

(***************************************************************************)
(* The trace context.  trace.SpanFromContext never returns nil: a context  *)
(* without a span yields a span whose identifiers are all zero.            *)
(***************************************************************************)
TraceIDLen == 16
SpanIDLen == 8

ZeroBytes(n) == [i \in 1..n |-> 0]

\* context.Background()
Background ==
    [traceID |-> ZeroBytes(TraceIDLen), spanID |-> ZeroBytes(SpanIDLen),
     attrs |-> <<>>]

\* SpanContext.IsValid
IsValid(ctx) ==
    /\ \E i \in 1..TraceIDLen : ctx.traceID[i] # 0
    /\ \E i \in 1..SpanIDLen : ctx.spanID[i] # 0

\* traceID and spanID as logInternal and logInternalJSON read them
SpanTraceID(ctx) == IF IsValid(ctx) THEN HexString(ctx.traceID) ELSE <<>>
SpanSpanID(ctx) == IF IsValid(ctx) THEN HexString(ctx.spanID) ELSE <<>>

(***************************************************************************)
(* The call stack and the stack-based caller.                              *)
(* A stack is the sequence of its frames, innermost first.                 *)
(***************************************************************************)
Frame(function, file, line) ==
    [function |-> function, file |-> file, line |-> line]

LoggerFile ==
    <<"/", "g", "o", "/", "p", "k", "g", "/", "m", "o", "d", "/",
      "g", "o", "-", "w", "s", "l", "o", "g", "g", "e", "r", "/",
      "l", "o", "g", "g", "e", "r", ".", "g", "o">>

\* the frames between a public log method and runtime.Callers when getCaller
\* is called by logInternal (plain text) or by logInternalJSON
LibraryFrames(method, json) ==
    <<Frame("runtime.Callers", <<>>, 0),
      Frame("getCallerFrame", LoggerFile, 74),
      Frame("Logger.getCaller", LoggerFile, 366)>>
    \o (IF json
        THEN <<Frame("Logger.logInternalJSON", LoggerFile, 155),
               Frame("Logger.logInternal", LoggerFile, 401)>>
        ELSE <<Frame("Logger.logInternal", LoggerFile, 423)>>)
    \o <<Frame("Logger.logWithArgs", LoggerFile, 538),
         Frame(method, LoggerFile, 494)>>

\* runtime.Callers(skip, pcs) with its 32 entries, then frames.Next():
\* the frame number skip+2 counted from runtime.Callers as number 0
getCallerFrame(skip, stack) ==
    IF Len(stack) - (skip + 2) <= 0
    THEN [ok |-> FALSE, frame |-> Frame("", <<>>, 0)]
    ELSE [ok |-> TRUE, frame |-> stack[skip + 3]]

\* formatCaller under CallerFlagFnLine, the flag getCaller passes
formatCaller(rf) == Base(rf.file) \o <<":">> \o Itoa(rf.line)

\* getCaller without the "unknown" fallback: no frame gives the empty string
getCallerNoFallback(skip, stack) ==
    LET r == getCallerFrame(skip, stack)
    IN  IF ~r.ok THEN <<>> ELSE formatCaller(r.frame)

getCaller(skip, stack) ==
    LET r == getCallerFrame(skip, stack)
    IN  IF ~r.ok THEN Unknown ELSE formatCaller(r.frame)

(***************************************************************************)
(* json.Marshal of a logJSON record.                                       *)
(***************************************************************************)
\* the printable ASCII bytes 0x20-0x5f and 0x61-0x7e in ascending order
\* (the byte 0x60 has no TLA+ string and is left out of the model)
ASCIILow ==
    <<" ", "!", "\"", "#", "$", "%", "&", "'", "(", ")", "*", "+",
      ",", "-", ".", "/", "0", "1", "2", "3", "4", "5", "6", "7",
      "8", "9", ":", ";", "<", "=", ">", "?", "@", "A", "B", "C",
      "D", "E", "F", "G", "H", "I", "J", "K", "L", "M", "N", "O",
      "P", "Q", "R", "S", "T", "U", "V", "W", "X", "Y", "Z", "[",
      "\\", "]", "^", "_">>

ASCIIHigh ==
    <<"a", "b", "c", "d", "e", "f", "g", "h", "i", "j", "k", "l",
      "m", "n", "o", "p", "q", "r", "s", "t", "u", "v", "w", "x",
      "y", "z", "{", "|", "}", "~">>

\* the value of a byte
Ord(c) ==
    IF c = "\n" THEN 10
    ELSE IF c = ESC THEN 27
    ELSE IF \E i \in 1..Len(ASCIILow) : ASCIILow[i] = c
    THEN 31 + (CHOOSE i \in 1..Len(ASCIILow) : ASCIILow[i] = c)
    ELSE 96 + (CHOOSE i \in 1..Len(ASCIIHigh) : ASCIIHigh[i] = c)

\* a < b as Go compares strings: byte by byte
RECURSIVE StringLess(_, _)
StringLess(a, b) ==
    IF Len(b) = 0 THEN FALSE
    ELSE IF Len(a) = 0 THEN TRUE
    ELSE IF a[1] # b[1] THEN Ord(a[1]) < Ord(b[1])
    ELSE StringLess(Tail(a), Tail(b))

\* the keys of a map in the order json.Marshal writes them: sorted
RECURSIVE SortedKeys(_)
SortedKeys(keys) ==
    IF keys = {} THEN <<>>
    ELSE LET least == CHOOSE k \in keys :
                        \A o \in keys \ {k} : StringLess(k, o)
         IN  <<least>> \o SortedKeys(keys \ {least})

\* an encoder that writes the quote as it is
EscapeByteRawQuote(c) ==
    IF c = "\\" THEN <<"\\", "\\">>
    ELSE IF c = "\n" THEN <<"\\", "n">>
    ELSE <<c>>

\* one byte of a string as the encoder writes it inside a JSON string
\* (HTML escaping is on by default)
EscapeByte(c) ==
    IF c = "\"" THEN <<"\\", "\"">>
    ELSE IF c = "\\" THEN <<"\\", "\\">>
    ELSE IF c = "\n" THEN <<"\\", "n">>
    ELSE IF c = ESC THEN <<"\\", "u", "0", "0", "1", "b">>
    ELSE IF c = "<" THEN <<"\\", "u", "0", "0", "3", "c">>
    ELSE IF c = ">" THEN <<"\\", "u", "0", "0", "3", "e">>
    ELSE IF c = "&" THEN <<"\\", "u", "0", "0", "2", "6">>
    ELSE <<c>>

\* the bytes lo..hi of s, each escaped (the string is halved, not walked)
RECURSIVE EscapeRange(_, _, _)
EscapeRange(s, lo, hi) ==
    IF lo > hi THEN <<>>
    ELSE IF lo = hi THEN EscapeByte(s[lo])
    ELSE EscapeRange(s, lo, (lo + hi) \div 2)
         \o EscapeRange(s, ((lo + hi) \div 2) + 1, hi)

EscapeString(s) == EscapeRange(s, 1, Len(s))

JSONString(s) == <<"\"">> \o EscapeString(s) \o <<"\"">>

JSONField(name, s) == JSONString(name) \o <<":">> \o JSONString(s)

\* a map[string]string as a JSON object
JSONMap(m) ==
    LET keys == SortedKeys(DOMAIN m)
    IN  <<"{">>
        \o Join([i \in 1..Len(keys) |-> JSONField(keys[i], m[keys[i]])],
                <<",">>)
        \o <<"}">>

\* json.Marshal(record) of the struct logJSON (logger.go 375-384): the
\* fields in declaration order, the omitempty fields left out when empty
jsonMarshal(record) ==
    <<"{">>
    \o JSONField(<<"t", "i", "m", "e">>, record.Time) \o <<",">>
    \o JSONField(<<"l", "e", "v", "e", "l">>, record.Level) \o <<",">>
    \o JSONField(<<"a", "p", "p", "_", "n", "a", "m", "e">>, record.App)
    \o <<",">>
    \o JSONField(<<"c", "a", "l", "l", "e", "r">>, record.Caller) \o <<",">>
    \o JSONField(<<"m", "e", "s", "s", "a", "g", "e">>, record.Message)
    \o (IF record.TraceID # <<>>
        THEN <<",">> \o JSONField(KeyTraceID, record.TraceID) ELSE <<>>)
    \o (IF record.SpanID # <<>>
        THEN <<",">> \o JSONField(KeySpanID, record.SpanID) ELSE <<>>)
    \o (IF DOMAIN record.Extra # {}
        THEN <<",">> \o JSONString(<<"e", "x", "t", "r", "a">>) \o <<":">>
             \o JSONMap(record.Extra)
        ELSE <<>>)
    \o <<"}">>

(***************************************************************************)
(* logInternalJSON, logInternal and logWithArgs.                           *)
(***************************************************************************)
\* a map that keeps the value a key already has: a pair is stored only
\* under a key the map does not hold yet
RECURSIVE PutAllKeepFirst(_, _)
PutAllKeepFirst(m, pairs) ==
    IF Len(pairs) = 0 THEN m
    ELSE PutAllKeepFirst([k \in DOMAIN m \cup {pairs[1].key} |->
                            IF k \in DOMAIN m THEN m[k] ELSE pairs[1].value],
                         Tail(pairs))

\* a map after the assignments m[kv.key] = kv.value for kv in pairs, in order
RECURSIVE PutAll(_, _)
PutAll(m, pairs) ==
    IF Len(pairs) = 0 THEN m
    ELSE PutAll([k \in DOMAIN m \cup {pairs[1].key} |->
                    IF k = pairs[1].key THEN pairs[1].value ELSE m[k]],
                Tail(pairs))

EmptyMap == [k \in {} |-> <<>>]

\* spanAttributesToMap(span): the attributes of the span, a later attribute
\* of the same key replacing an earlier one
spanAttributesToMap(ctx) == PutAll(EmptyMap, ctx.attrs)

\* a resolver that qualifies the hint on every pass: the segment after the
\* last colon is appended once more
GoroutineCallerRequalified(extras) ==
    IF \E i \in 1..Len(extras) : extras[i].key = GoroutineCallerKey
    THEN LET v == extras[CHOOSE i \in 1..Len(extras) :
                            /\ extras[i].key = GoroutineCallerKey
                            /\ \A j \in 1..(i - 1) :
                                  extras[j].key # GoroutineCallerKey
                        ].value
         IN  IF LastIndexByte(v, ":") = 0 THEN v
             ELSE v \o SubSeq(v, LastIndexByte(v, ":"), Len(v))
    ELSE <<>>

\* the value of the first extra whose key is "goroutine_caller", else ""
GoroutineCaller(extras) ==
    IF \E i \in 1..Len(extras) : extras[i].key = GoroutineCallerKey
    THEN extras[CHOOSE i \in 1..Len(extras) :
                    /\ extras[i].key = GoroutineCallerKey
                    /\ \A j \in 1..(i - 1) : extras[j].key # GoroutineCallerKey
               ].value
    ELSE <<>>

\* What one call of logInternal does: it panics, or it hands one buffer,
\* `out`, to l.writer in one Write (fmt.Fprintln).  The other fields are
\* the record the call built.
Outcome(l, json, level, msg, extras, caller, traceID, spanID, panic, line) ==
    [cfg |-> l, json |-> json, level |-> level, msg |-> msg,
     extras |-> extras, caller |-> caller, traceID |-> traceID,
     spanID |-> spanID, panic |-> panic, line |-> line,
     out |-> line \o <<"\n">>]

logInternalJSON(l, level, msg, extras, ctx, t, stack) ==
    LET traceID == SpanTraceID(ctx)
        spanID == SpanSpanID(ctx)
        extraMap ==
            PutAll(IF l.includeSpanAttrs THEN spanAttributesToMap(ctx)
                   ELSE EmptyMap,
                   extras)
        hint == GoroutineCaller(extras)
        caller == IF hint = <<>> THEN getCaller(6, stack) ELSE hint
        record ==
            [Time |-> TimeFormat(t), Level |-> level, App |-> l.appName,
             Caller |-> caller, Message |-> msg, TraceID |-> traceID,
             SpanID |-> spanID, Extra |-> extraMap]
    IN  Outcome(l, TRUE, level, msg, extras, caller, traceID, spanID,
                FALSE, jsonMarshal(record))

\* the extras as logInternal renders them: key=value joined by one space,
\* each key coloured when the logger colours
ExtraStr(l, level, extras) ==
    LET colorCode == IF l.color THEN getColorCode(level) ELSE <<>>
    IN  Join([i \in 1..Len(extras) |->
                (IF colorCode # <<>>
                 THEN colorCode \o extras[i].key \o colorReset
                 ELSE extras[i].key)
                \o <<"=">> \o extras[i].value],
             <<" ">>)

\* logInternal (logger.go 398-444); stack is the call stack at the call of
\* runtime.Callers, order the iteration order of the replacements map
logInternal(l, level, msg, extras, ctx, t, stack, order) ==
    IF l.jsonMode
    THEN logInternalJSON(l, level, msg, extras, ctx, t, stack)
    ELSE LET traceID == SpanTraceID(ctx)
             spanID == SpanSpanID(ctx)
             hint == GoroutineCaller(extras)
             caller == IF hint = <<>> THEN getCaller(6, stack) ELSE hint
             extraStr == ExtraStr(l, level, extras)
             output == formatMessage(l, level, msg, extraStr, t,
                                     traceID, spanID, caller, order)
         IN  Outcome(l, FALSE, level, msg, extras, caller, traceID, spanID,
                     output.panic, output.s)

\* the iteration orders a call of logInternal may take in formatMessage
LogOrders(l, level, msg, extras, ctx, t, stack) ==
    IF l.jsonMode THEN {CanonicalOrder}
    ELSE LET hint == GoroutineCaller(extras)
             caller == IF hint = <<>> THEN getCaller(6, stack) ELSE hint
         IN  MapOrders(l.format,
                       Replacements(l, level, msg, t, SpanTraceID(ctx),
                                    SpanSpanID(ctx), caller))

(***************************************************************************)
(* The state.                                                              *)
(***************************************************************************)
VARIABLES
    logger,     \* the Logger: writer, format, appName, color, jsonMode,
                \* includeSpanAttrs
    sinks,      \* for each sink, the buffers it received, one per Write
    history,    \* one entry per log call made: the call and its Outcome
    clock,      \* time.Now(), in seconds
    userStack,  \* the frames of the calling thread below the log method
    pending,    \* the number of log calls the calling thread still makes
    tasks       \* the spawned tasks: what each one logs and how far it is

vars == <<logger, sinks, history, clock, userStack, pending, tasks>>

SinkNames == {"stdout", "buf", "app.log"}

\* a fan-out that stops after its first destination
FprintlnFirstOnly(s, w, out) ==
    IF Len(w) = 0 THEN [sinks |-> s, panic |-> FALSE]
    ELSE IF w[1] = "nil" THEN [sinks |-> s, panic |-> TRUE]
    ELSE [sinks |-> [s EXCEPT ![w[1]] = Append(@, out)], panic |-> FALSE]

\* fmt.Fprintln(w, output): one Write of the line and its line break to w;
\* an io.MultiWriter passes the buffer to its writers in order, and a nil
\* writer among them panics
RECURSIVE Fprintln(_, _, _)
Fprintln(s, w, out) ==
    IF Len(w) = 0 THEN [sinks |-> s, panic |-> FALSE]
    ELSE IF w[1] = "nil" THEN [sinks |-> s, panic |-> TRUE]
    ELSE Fprintln([s EXCEPT ![w[1]] = Append(@, out)], Tail(w), out)

(***************************************************************************)
(* The public log methods.  call records the method and the arguments as   *)
(* the caller passed them.                                                 *)
(***************************************************************************)
logWithArgs(call, level, args, ctx) ==
    /\ pending > 0
    /\ pending' = pending - 1
    /\ LET p == parseLogArgs(args)
           stack == LibraryFrames(call.method, logger.jsonMode) \o userStack
       IN  \E order \in LogOrders(logger, level, p.msg, p.extras, ctx,
                                  clock, stack) :
             LET o == logInternal(logger, level, p.msg, p.extras, ctx,
                                  clock, stack, order)
                 w == Fprintln(sinks, logger.writer, o.out)
             IN  IF o.panic
                 THEN /\ history' = Append(history,
                                           [call |-> call, ctx |-> ctx, o |-> o])
                      /\ sinks' = sinks
                 ELSE /\ history' = Append(history,
                            [call |-> call, ctx |-> ctx,
                             o |-> [o EXCEPT !.panic = w.panic]])
                      /\ sinks' = w.sinks
    /\ clock' = clock + 1
    /\ UNCHANGED <<logger, userStack, tasks>>

TheCall(method, args) == [method |-> method, args |-> args]

\* the argument list an f variant passes to logWithArgs
FormattedArgs(format, args) == <<StrVal(FormattedMessage(format, args))>>

Info(args) == logWithArgs(TheCall("Info", args), INFO, args, Background)
Warn(args) == logWithArgs(TheCall("Warn", args), WARN, args, Background)
Error(args) == logWithArgs(TheCall("Error", args), ERROR, args, Background)
Debug(args) == logWithArgs(TheCall("Debug", args), DEBUG, args, Background)

Infof(format, args) ==
    logWithArgs(TheCall("Infof", <<StrVal(format)>> \o args), INFO,
                FormattedArgs(format, args), Background)
Warnf(format, args) ==
    logWithArgs(TheCall("Warnf", <<StrVal(format)>> \o args), WARN,
                FormattedArgs(format, args), Background)
Errorf(format, args) ==
    logWithArgs(TheCall("Errorf", <<StrVal(format)>> \o args), ERROR,
                FormattedArgs(format, args), Background)
Debugf(format, args) ==
    logWithArgs(TheCall("Debugf", <<StrVal(format)>> \o args), DEBUG,
                FormattedArgs(format, args), Background)

InfoCtx(ctx, args) == logWithArgs(TheCall("InfoCtx", args), INFO, args, ctx)
WarnCtx(ctx, args) == logWithArgs(TheCall("WarnCtx", args), WARN, args, ctx)
ErrorCtx(ctx, args) == logWithArgs(TheCall("ErrorCtx", args), ERROR, args, ctx)
DebugCtx(ctx, args) == logWithArgs(TheCall("DebugCtx", args), DEBUG, args, ctx)

InfoCtxf(ctx, format, args) ==
    logWithArgs(TheCall("InfoCtxf", <<StrVal(format)>> \o args), INFO,
                FormattedArgs(format, args), ctx)
WarnCtxf(ctx, format, args) ==
    logWithArgs(TheCall("WarnCtxf", <<StrVal(format)>> \o args), WARN,
                FormattedArgs(format, args), ctx)
ErrorCtxf(ctx, format, args) ==
    logWithArgs(TheCall("ErrorCtxf", <<StrVal(format)>> \o args), ERROR,
                FormattedArgs(format, args), ctx)
DebugCtxf(ctx, format, args) ==
    logWithArgs(TheCall("DebugCtxf", <<StrVal(format)>> \o args), DEBUG,
                FormattedArgs(format, args), ctx)

(***************************************************************************)
(* The setters (logger.go 446-460): each one assigns one field of the      *)
(* logger, at any time after construction.                                 *)
(***************************************************************************)
SetAppName(name) ==
    /\ logger' = [logger EXCEPT !.appName = name]
    /\ UNCHANGED <<sinks, history, clock, userStack, pending, tasks>>

SetColor(enabled) ==
    /\ logger' = [logger EXCEPT !.color = enabled]
    /\ UNCHANGED <<sinks, history, clock, userStack, pending, tasks>>

SetJSON(enabled) ==
    /\ logger' = [logger EXCEPT !.jsonMode = enabled]
    /\ UNCHANGED <<sinks, history, clock, userStack, pending, tasks>>

SetIncludeSpanAttrs(enabled) ==
    /\ logger' = [logger EXCEPT !.includeSpanAttrs = enabled]
    /\ UNCHANGED <<sinks, history, clock, userStack, pending, tasks>>

(***************************************************************************)
(* The inputs the specifications draw from.                                *)
(***************************************************************************)
\* "{level} - {message}"
CustomFormat ==
    <<"{", "l", "e", "v", "e", "l", "}", " ", "-", " ",
      "{", "m", "e", "s", "s", "a", "g", "e", "}">>
\* "{message} {trace_id} {span_id} {extra}"
TraceFormat ==
    <<"{", "m", "e", "s", "s", "a", "g", "e", "}", " ",
      "{", "t", "r", "a", "c", "e", "_", "i", "d", "}", " ",
      "{", "s", "p", "a", "n", "_", "i", "d", "}", " ",
      "{", "e", "x", "t", "r", "a", "}">>
EmptyFormat == <<>>
ExtraFormat == PhExtra
\* "{message} {level}"
LevelLastFormat ==
    <<"{", "m", "e", "s", "s", "a", "g", "e", "}", " ",
      "{", "l", "e", "v", "e", "l", "}">>

\* the file name of the rotating file sink
LogFile == "app.log"

Svc == <<"S", "v", "c">>
\* "__callsite", the key spec.md reserves for internal bookkeeping
CallsiteKey == <<"_", "_", "c", "a", "l", "l", "s", "i", "t", "e">>
Hi == <<"h", "i">>

\* the option lists NewLogger is called with
OptionLists ==
    {<<>>,
     <<WithWriter(Buffer), WithAppName(Svc), WithColor(FALSE)>>,
     <<WithWriter(Buffer), WithFormat(CustomFormat), WithColor(FALSE)>>,
     <<WithWriter(Buffer), WithFormat(CustomFormat), WithColor(TRUE)>>,
     <<WithWriter(Buffer), WithColor(TRUE)>>,
     <<WithWriter(Buffer), WithFormat(TraceFormat), WithColor(FALSE)>>,
     <<WithWriter(Buffer), WithFormat(TraceFormat), WithColor(TRUE)>>,
     <<WithWriter(Buffer), WithJSON(TRUE)>>,
     <<WithJSON(TRUE), WithColor(TRUE), WithFormat(EmptyFormat),
       WithAppName(Svc), WithSpanAttributes(TRUE)>>,
     <<WithWriter(NilWriter), WithFormat(EmptyFormat)>>,
     <<WithWriter(Buffer), WithFormat(ExtraFormat)>>,
     <<WithWriter(Buffer), WithAppName(<<>>)>>,
     <<WithWriter(Buffer), WithFormat(LevelLastFormat), WithColor(TRUE)>>}

\* the option lists of the specification of call sequences
SeqOptionLists ==
    {<<WithWriter(Buffer), WithColor(FALSE)>>,
     <<WithWriter(Buffer), WithJSON(TRUE)>>,
     <<WithWriter(Buffer), WithFormat(CustomFormat), WithColor(TRUE)>>,
     <<WithWriter(Buffer), WithFormat(ExtraFormat)>>,
     <<WithJSON(TRUE), WithMultiWriterTo(Buffer, LogFile)>>}

\* the argument lists of Info, Warn, ... and of their Ctx variants
ArgLists ==
    {<<>>,
     <<StrVal(Hi)>>,
     <<StrVal(<<>>)>>,
     <<IntVal(42)>>,
     <<StrVal(Hi), StrVal(<<"k">>)>>,
     <<StrVal(Hi), StrVal(<<"k">>), IntVal(1)>>,
     <<StrVal(Hi), StrVal(<<"k">>), StrVal(<<"v", " ", "w">>)>>,
     <<StrVal(Hi), IntVal(5), StrVal(<<"x">>), StrVal(<<"o", "d", "d">>)>>,
     <<StrVal(<<"t", "r", "a", "c", "e", "_", "i", "d", "=", "z">>)>>,
     <<StrVal(<<"q", "\"">>), StrVal(<<"k">>), StrVal(<<"<", "\\">>)>>,
     <<StrVal(Hi), StrVal(GoroutineCallerKey),
       StrVal(<<"m", ".", "g", "o", ":", "7">>)>>,
     <<StrVal(Hi), StrVal(GoroutineCallerKey), StrVal(<<>>)>>,
     <<StrVal(Hi), StrVal(<<"k">>), IntVal(1), StrVal(GoroutineCallerKey),
       StrVal(<<"/", "a", "p", "p", "/", "m", "a", "i", "n", ".", "g", "o",
                ":", "7">>)>>,
     <<StrVal(Hi), StrVal(GoroutineCallerKey),
       StrVal(<<"m", "a", "i", "n", ".", "g", "o", ":", "m", "a", "i", "n">>)>>,
     <<StrVal(Hi), StrVal(CallsiteKey),
       StrVal(<<"m", ".", "g", "o", ":", "9">>)>>,
     <<StrVal(Hi), StrVal(<<"k">>), StrVal(<<"a", "\n", "b">>)>>,
     <<StrVal(Hi), StrVal(GoroutineCallerKey),
       StrVal(<<"a", ".", "g", "o", ":", "1">>), StrVal(GoroutineCallerKey),
       StrVal(<<"b", ".", "g", "o", ":", "2">>)>>}

SeqArgLists ==
    {<<StrVal(Hi)>>,
     <<StrVal(Hi), StrVal(<<"k">>), IntVal(1)>>}

\* the format and operands of Infof, Warnf, ... and of their Ctx variants
FormatCalls ==
    {[format |-> Hi, args |-> <<>>],
     [format |-> <<"n", "=", "%", "d">>, args |-> <<IntVal(7)>>],
     [format |-> <<"e", ":", " ", "%", "w">>, args |-> <<ErrVal(<<"x">>)>>]}

SeqFormatCalls ==
    {[format |-> <<"n", "=", "%", "d">>, args |-> <<IntVal(7)>>]}

\* a context that carries a valid span
SpanCtx ==
    [traceID |-> [i \in 1..TraceIDLen |-> 15 * i + 1],
     spanID |-> [i \in 1..SpanIDLen |-> 255 - i],
     attrs |-> <<[key |-> <<"u">>, value |-> <<"1">>],
                 [key |-> <<"k">>, value |-> <<"s">>]>>]

Ctxs == {Background, SpanCtx}

SeqCtxs == {SpanCtx}

\* the frames below the log method: a call in main.main, and a call in the
\* body of a spawned goroutine
MainFile == <<"/", "a", "p", "p", "/", "m", "a", "i", "n", ".", "g", "o">>
ProcFile ==
    <<"/", "g", "o", "/", "s", "r", "c", "/", "r", "u", "n", "t", "i", "m",
      "e", "/", "p", "r", "o", "c", ".", "g", "o">>
AsmFile ==
    <<"/", "g", "o", "/", "s", "r", "c", "/", "r", "u", "n", "t", "i", "m",
      "e", "/", "a", "s", "m", "_", "a", "m", "d", "6", "4", ".", "s">>

MainStack ==
    <<Frame(<<"m", "a", "i", "n", ".", "m", "a", "i", "n">>, MainFile, 41),
      Frame(<<"r", "u", "n", "t", "i", "m", "e", ".", "m", "a", "i", "n">>, ProcFile, 283),
      Frame(<<"r", "u", "n", "t", "i", "m", "e", ".", "g", "o", "e", "x", "i", "t">>, AsmFile, 1700)>>

GoroutineStack ==
    <<Frame(<<"m", "a", "i", "n", ".", "m", "a", "i", "n", ".", "f", "u", "n", "c", "1">>, MainFile, 31),
      Frame(<<"r", "u", "n", "t", "i", "m", "e", ".", "g", "o", "e", "x", "i", "t">>, AsmFile, 1700)>>

\* a call in a test function run by the testing package
TestFile ==
    <<"/", "a", "p", "p", "/", "m", "a", "i", "n", "_", "t", "e", "s", "t",
      ".", "g", "o">>
TestingFile ==
    <<"/", "g", "o", "/", "s", "r", "c", "/", "t", "e", "s", "t", "i", "n",
      "g", "/", "t", "e", "s", "t", "i", "n", "g", ".", "g", "o">>

TestStack ==
    <<Frame(<<"m", "a", "i", "n", ".", "T", "e", "s", "t", "L", "o", "g">>,
            TestFile, 12),
      Frame(<<"t", "e", "s", "t", "i", "n", "g", ".", "t", "R", "u", "n", "n",
              "e", "r">>,
            TestingFile, 1792),
      Frame(<<"r", "u", "n", "t", "i", "m", "e", ".", "g", "o", "e", "x", "i",
              "t">>,
            AsmFile, 1700)>>

UserStacks == {MainStack, GoroutineStack, TestStack}

\* the time of the first call
StartTime == 3661

(***************************************************************************)
(* Spawn-site capture.  WrapGoroutine and GoroutineLogger are used by      *)
(* logger_goroutine_caller_test.go and examples/goroutine/main.go, their   *)
(* code is not part of src/: they are modelled from spec.md, section 4.3   *)
(* and "Spawn-site API" of section 6.                                      *)
(***************************************************************************)
\* captureSpawnSite: the location string of the handle.  stack holds the
\* frames of the creating thread, the immediate caller first; found tells
\* whether the enclosing function name was resolved, line is the line the
\* steps (3)-(5) settle on.  The result is basename:function:line, or the
\* degraded basename:line.
captureSpawnSite(stack, found, line) ==
    IF Len(stack) = 0 THEN <<>>
    ELSE Base(stack[1].file) \o <<":">>
         \o (IF found THEN stack[1].function \o <<":">> ELSE <<>>)
         \o Itoa(line)

\* WrapGoroutine: the handle, which embeds the captured location
WrapGoroutine(stack, found, line) ==
    [site |-> captureSpawnSite(stack, found, line)]

\* the arguments a leveled call on the handle passes on to the logger: its
\* own, and the captured attribution injected as the "goroutine_caller" extra
GoroutineLoggerArgs(g, args) ==
    args \o <<StrVal(GoroutineCallerKey), StrVal(g.site)>>

(***************************************************************************)
(* Concurrent tasks.  Each task makes one Info call on the shared logger.  *)
(* A log call touches shared state twice: it reads the configuration and   *)
(* the clock while it builds its buffer, and it hands the buffer to the    *)
(* sink in one Write.  Nothing changes the configuration here, so the      *)
(* call is two steps: TaskLog up to the Write, TaskWrite the Write itself, *)
(* which the sink performs atomically.  A task whose call panics ends      *)
(* there (its body recovers); the other tasks go on.                       *)
(***************************************************************************)
Task(args, wrapped) ==
    [pc |-> "spawned", args |-> args, wrapped |-> wrapped,
     extraStr |-> <<>>,
     o |-> Outcome(logger, FALSE, <<>>, <<>>, <<>>, <<>>, <<>>, <<>>,
                   FALSE, <<>>)]

\* go func() { log.Info(args...) }()
Go(args) ==
    /\ Len(tasks) < NumTasks
    /\ tasks' = Append(tasks, Task(args, FALSE))
    /\ UNCHANGED <<logger, sinks, history, clock, userStack, pending>>

\* g := log.WrapGoroutine(); go func(g) { g.Info(args...) }(g)
GoWrapped(args, found, line) ==
    /\ Len(tasks) < NumTasks
    /\ LET g == WrapGoroutine(userStack, found, line)
       IN  tasks' = Append(tasks, Task(GoroutineLoggerArgs(g, args), TRUE))
    /\ UNCHANGED <<logger, sinks, history, clock, userStack, pending>>

\* the frames of a spawned task below Info: the task body, runtime.goexit
TaskStack == LibraryFrames("Info", logger.jsonMode) \o GoroutineStack

\* task i runs Info up to the call of fmt.Fprintln
TaskLog(i) ==
    /\ tasks[i].pc = "spawned"
    /\ LET p == parseLogArgs(tasks[i].args)
       IN  \E order \in LogOrders(logger, INFO, p.msg, p.extras, Background,
                                  clock, TaskStack) :
             LET o == logInternal(logger, INFO, p.msg, p.extras, Background,
                                  clock, TaskStack, order)
             IN  tasks' = [tasks EXCEPT
                              ![i].pc = IF o.panic THEN "panicked"
                                        ELSE "writing",
                              ![i].o = o]
    /\ clock' = clock + 1
    /\ UNCHANGED <<logger, sinks, history, userStack, pending>>

\* the Write of task i reaches the sink
TaskWrite(i) ==
    /\ tasks[i].pc = "writing"
    /\ LET w == Fprintln(sinks, logger.writer, tasks[i].o.out)
       IN  /\ sinks' = w.sinks
           /\ tasks' = [tasks EXCEPT
                           ![i].pc = IF w.panic THEN "panicked" ELSE "done"]
    /\ UNCHANGED <<logger, history, clock, userStack, pending>>

(***************************************************************************)
(* A log call next to a setter.  The setters take no lock, so a plain-text *)
(* call reads the configuration at several moments: logInternal reads      *)
(* l.jsonMode (400) and, for the extras, l.color (430); formatMessage      *)
(* reads l.color again (289), l.appName (314) and l.format (322).  The     *)
(* call is therefore three steps here: TaskExtras up to the call of        *)
(* formatMessage, TaskFormat up to the Write, TaskWrite.  An unsynchronised*)
(* read of a flag yields the value before or after a concurrent            *)
(* assignment, which is what a read at either side of the setter gives.    *)
(***************************************************************************)
\* task i runs logInternal up to the call of formatMessage (398-441)
TaskExtras(i) ==
    /\ tasks[i].pc = "spawned"
    /\ ~logger.jsonMode
    /\ tasks' = [tasks EXCEPT
                    ![i].pc = "formatting",
                    ![i].extraStr =
                        ExtraStr(logger, INFO,
                                 parseLogArgs(tasks[i].args).extras)]
    /\ UNCHANGED <<logger, sinks, history, clock, userStack, pending>>

\* task i runs formatMessage (442) with the extraStr it built
TaskFormat(i) ==
    /\ tasks[i].pc = "formatting"
    /\ LET p == parseLogArgs(tasks[i].args)
           hint == GoroutineCaller(p.extras)
           caller == IF hint = <<>> THEN getCaller(6, TaskStack) ELSE hint
       IN  \E order \in MapOrders(logger.format,
                                  Replacements(logger, INFO, p.msg, clock,
                                               <<>>, <<>>, caller)) :
             LET output == formatMessage(logger, INFO, p.msg,
                                         tasks[i].extraStr, clock,
                                         <<>>, <<>>, caller, order)
                 o == Outcome(logger, FALSE, INFO, p.msg, p.extras, caller,
                              <<>>, <<>>, output.panic, output.s)
             IN  tasks' = [tasks EXCEPT
                              ![i].pc = IF o.panic THEN "panicked"
                                        ELSE "writing",
                              ![i].o = o]
    /\ clock' = clock + 1
    /\ UNCHANGED <<logger, sinks, history, userStack, pending>>

\* go logInGoroutine(i): a goroutine that calls l.getCaller(2) itself
\* (TestLogger_GoroutineID)
GoProbe ==
    /\ Len(tasks) < NumTasks
    /\ tasks' = Append(tasks, [Task(<<>>, FALSE) EXCEPT !.pc = "probing"])
    /\ UNCHANGED <<logger, sinks, history, clock, userStack, pending>>

\* the frames at the call of runtime.Callers when the body of a goroutine
\* calls getCaller
ProbeStack == SubSeq(LibraryFrames("", FALSE), 1, 3) \o GoroutineStack

\* msg := l.getCaller(2); results <- msg
Probe(i) ==
    /\ tasks[i].pc = "probing"
    /\ tasks' = [tasks EXCEPT ![i].pc = "probed",
                              ![i].o.caller = getCaller(2, ProbeStack)]
    /\ UNCHANGED <<logger, sinks, history, clock, userStack, pending>>

(***************************************************************************)
(* The specifications.                                                     *)
(***************************************************************************)
InitWith(optionLists, calls) ==
    /\ \E opts \in optionLists : logger = NewLogger(opts)
    /\ sinks = [n \in SinkNames |-> <<>>]
    /\ history = <<>>
    /\ clock = StartTime
    /\ userStack \in UserStacks
    /\ pending = calls
    /\ tasks = <<>>

\* a call of one of the sixteen log methods
LogCall(argLists, formatCalls, ctxs) ==
    \/ \E args \in argLists : Info(args)
    \/ \E args \in argLists : Warn(args)
    \/ \E args \in argLists : Error(args)
    \/ \E args \in argLists : Debug(args)
    \/ \E f \in formatCalls : Infof(f.format, f.args)
    \/ \E f \in formatCalls : Warnf(f.format, f.args)
    \/ \E f \in formatCalls : Errorf(f.format, f.args)
    \/ \E f \in formatCalls : Debugf(f.format, f.args)
    \/ \E ctx \in ctxs, args \in argLists : InfoCtx(ctx, args)
    \/ \E ctx \in ctxs, args \in argLists : WarnCtx(ctx, args)
    \/ \E ctx \in ctxs, args \in argLists : ErrorCtx(ctx, args)
    \/ \E ctx \in ctxs, args \in argLists : DebugCtx(ctx, args)
    \/ \E ctx \in ctxs, f \in formatCalls : InfoCtxf(ctx, f.format, f.args)
    \/ \E ctx \in ctxs, f \in formatCalls : WarnCtxf(ctx, f.format, f.args)
    \/ \E ctx \in ctxs, f \in formatCalls : ErrorCtxf(ctx, f.format, f.args)
    \/ \E ctx \in ctxs, f \in formatCalls : DebugCtxf(ctx, f.format, f.args)

\* SpecCall: a logger is built and one log call is made on it
InitCall == InitWith(OptionLists, 1)

NextCall == LogCall(ArgLists, FormatCalls, Ctxs)

SpecCall == InitCall /\ [][NextCall]_vars

\* Spec: a logger is built and a sequence of log calls is made on it
Init == InitWith(SeqOptionLists, MaxCalls)

Next == LogCall(SeqArgLists, SeqFormatCalls, SeqCtxs)

Spec == Init /\ [][Next]_vars

\* SpecConc: a logger is built, NumTasks tasks are spawned, with or without
\* a spawn handle, and each makes one Info call
ConcOptionLists ==
    {<<WithWriter(Buffer), WithColor(FALSE)>>,
     <<WithWriter(Buffer), WithJSON(TRUE), WithColor(FALSE)>>,
     <<WithWriter(Buffer), WithFormat(ExtraFormat)>>}

InitConc == InitWith(ConcOptionLists, 0)

NextConc ==
    \/ \E args \in SeqArgLists : Go(args)
    \/ \E args \in SeqArgLists, found \in BOOLEAN,
          line \in {userStack[1].line, userStack[1].line + 2} :
            GoWrapped(args, found, line)
    \/ \E i \in 1..Len(tasks) : TaskLog(i)
    \/ \E i \in 1..Len(tasks) : TaskWrite(i)

SpecConc == InitConc /\ [][NextConc]_vars

\* SpecSet: a logger is built; the setters are called on it in any order
\* and any number of times, before and after one log call
AppNames == {defaultAppName, Svc}

InitSet == InitWith(SeqOptionLists, 1)

NextSet ==
    \/ \E name \in AppNames : SetAppName(name)
    \/ \E enabled \in BOOLEAN : SetColor(enabled)
    \/ \E enabled \in BOOLEAN : SetJSON(enabled)
    \/ \E enabled \in BOOLEAN : SetIncludeSpanAttrs(enabled)
    \/ \E ctx \in SeqCtxs, args \in SeqArgLists : InfoCtx(ctx, args)

SpecSet == InitSet /\ [][NextSet]_vars

\* SpecRace: a logger is built and NumTasks goroutines are spawned on it;
\* each one makes a plain-text Info call, read by read, or calls
\* getCaller(2), while SetColor is called at any moment
RaceOptionLists ==
    {<<WithWriter(Buffer), WithColor(FALSE)>>,
     <<WithWriter(Buffer), WithColor(TRUE)>>,
     <<WithWriter(Buffer), WithFormat(<<"[">> \o PhCaller \o <<"]", " ">>
                                      \o PhMessage),
       WithColor(FALSE)>>}

InitRace == InitWith(RaceOptionLists, 0)

NextRace ==
    \/ \E args \in SeqArgLists : Go(args)
    \/ GoProbe
    \/ \E i \in 1..Len(tasks) : TaskExtras(i)
    \/ \E i \in 1..Len(tasks) : TaskFormat(i)
    \/ \E i \in 1..Len(tasks) : TaskWrite(i)
    \/ \E i \in 1..Len(tasks) : Probe(i)
    \/ \E enabled \in BOOLEAN : SetColor(enabled)

SpecRace == InitRace /\ [][NextRace]_vars

\* SpecSink: a logger is built from sink-setting options, in different
\* orders and with a nil writer among them, and one log call is made on it
SinkOptionLists ==
    {<<>>,
     <<WithWriter(NilWriter)>>,
     <<WithWriter(Buffer)>>,
     <<WithWriter(Buffer), WithWriter(NilWriter)>>,
     <<WithRotatingFile(LogFile), WithWriter(Buffer)>>,
     <<WithWriter(Buffer), WithRotatingFile(LogFile)>>,
     <<WithMultiWriter(LogFile), WithWriter(NilWriter)>>,
     <<WithWriter(Buffer), WithMultiWriterTo(Buffer, LogFile)>>,
     <<WithMultiWriterTo(Buffer, LogFile), WithAppName(Svc),
       WithWriter(Buffer)>>,
     <<WithRotatingFile(LogFile), WithMultiWriterTo(NilWriter, LogFile)>>,
     <<WithRotatingFile(LogFile), WithWriter(Buffer), WithWriter(NilWriter),
       WithJSON(TRUE)>>,
     <<WithFormat(CustomFormat), WithMultiWriter(LogFile),
       WithRotatingFile(LogFile)>>}

InitSink == InitWith(SinkOptionLists, 1)

NextSink == LogCall(SeqArgLists, SeqFormatCalls, SeqCtxs)

SpecSink == InitSink /\ [][NextSink]_vars

\* SpecOrder: a plain-text logger is built and one log call is made on it
\* whose message, app name, caller hint or extra value holds the text of a
\* placeholder
OrderOptionLists ==
    {<<WithWriter(Buffer)>>,
     <<WithWriter(Buffer), WithColor(TRUE)>>,
     <<WithWriter(Buffer), WithAppName(PhMessage)>>}

OrderArgLists ==
    {<<StrVal(PhLevel)>>,
     <<StrVal(PhExtra), StrVal(<<"k">>), IntVal(1)>>,
     <<StrVal(Hi), StrVal(<<"k">>), StrVal(PhExtra)>>,
     <<StrVal(Hi), StrVal(GoroutineCallerKey), StrVal(PhMessage)>>}

OrderFormatCalls ==
    {[format |-> PhLevel \o <<" ", "%", "d">>, args |-> <<IntVal(7)>>]}

OrderCtxs == {Background}

InitOrder == InitWith(OrderOptionLists, 1) /\ userStack = MainStack

NextOrder == LogCall(OrderArgLists, OrderFormatCalls, OrderCtxs)

SpecOrder == InitOrder /\ [][NextOrder]_vars

(***************************************************************************)
(* Reading a record back: what a JSON decoder makes of an emitted line.    *)
(* The grammar is the compact one json.Marshal writes: an object whose     *)
(* member values are strings or, one level down, objects of strings.       *)
(* Whatever DecodeObject accepts is a valid JSON text.                     *)
(***************************************************************************)
\* the byte of a character code, <<>> when the model has no such byte
Chr(n) ==
    IF n = 10 THEN <<"\n">>
    ELSE IF n = 27 THEN <<ESC>>
    ELSE IF n >= 32 /\ n <= 95 THEN <<ASCIILow[n - 31]>>
    ELSE IF n >= 97 /\ n <= 126 THEN <<ASCIIHigh[n - 96]>>
    ELSE <<>>

UpperHexDigits == <<"A", "B", "C", "D", "E", "F">>

IsHex(c) ==
    \/ \E i \in 1..16 : HexDigits[i] = c
    \/ \E i \in 1..6 : UpperHexDigits[i] = c

HexVal(c) ==
    IF \E i \in 1..16 : HexDigits[i] = c
    THEN (CHOOSE i \in 1..16 : HexDigits[i] = c) - 1
    ELSE (CHOOSE i \in 1..6 : UpperHexDigits[i] = c) + 9

\* the number of consecutive backslashes that end right before position j,
\* none of them at or before position i
BackslashRun(s, i, j) ==
    CHOOSE r \in 0..(j - 1 - i) :
        /\ \A m \in (j - r)..(j - 1) : s[m] = "\\"
        /\ s[j - r - 1] # "\\"

\* position k holds the backslash that opens an escape (s[i] is the quote
\* that opens the string)
EscStart(s, i, k) == s[k] = "\\" /\ BackslashRun(s, i, k) % 2 = 0

\* the place of the quote that closes the string opened at i, 0 if none
StringEnd(s, i) ==
    LET ends == {j \in (i + 1)..Len(s) :
                    s[j] = "\"" /\ BackslashRun(s, i, j) % 2 = 0}
    IN  IF ends = {} THEN 0
        ELSE CHOOSE j \in ends : \A m \in ends : j <= m

\* position k lies inside the four digits of a \u escape
InUnicode(s, i, k) ==
    \E e \in (k - 5)..(k - 2) :
        e > i /\ EscStart(s, i, e) /\ s[e + 1] = "u"

\* what position k of a string (opened at i, closed at e) stands for:
\* ok is FALSE when the string is malformed there
DecodeAt(s, i, e, k) ==
    IF EscStart(s, i, k)
    THEN LET c == s[k + 1]
         IN  IF c = "\"" \/ c = "\\" \/ c = "/"
             THEN [ok |-> TRUE, s |-> <<c>>]
             ELSE IF c = "n" THEN [ok |-> TRUE, s |-> <<"\n">>]
             ELSE IF c = "u" /\ k + 5 < e
                     /\ \A d \in (k + 2)..(k + 5) : IsHex(s[d])
             THEN LET n == 4096 * HexVal(s[k + 2]) + 256 * HexVal(s[k + 3])
                           + 16 * HexVal(s[k + 4]) + HexVal(s[k + 5])
                  IN  [ok |-> Chr(n) # <<>>, s |-> Chr(n)]
             ELSE [ok |-> FALSE, s |-> <<>>]
    ELSE IF k - 1 > i /\ EscStart(s, i, k - 1) THEN [ok |-> TRUE, s |-> <<>>]
    ELSE IF InUnicode(s, i, k) THEN [ok |-> TRUE, s |-> <<>>]
    ELSE [ok |-> s[k] # "\n" /\ s[k] # ESC, s |-> <<s[k]>>]

\* the decoded bytes of the positions lo..hi of the string
RECURSIVE DecodeRange(_, _, _, _, _)
DecodeRange(s, i, e, lo, hi) ==
    IF lo > hi THEN <<>>
    ELSE IF lo = hi THEN DecodeAt(s, i, e, lo).s
    ELSE DecodeRange(s, i, e, lo, (lo + hi) \div 2)
         \o DecodeRange(s, i, e, ((lo + hi) \div 2) + 1, hi)

\* the JSON string that starts at position i: its value and where it ends
DecodeString(s, i) ==
    LET e == StringEnd(s, i)
    IN  IF i > Len(s) \/ s[i] # "\"" \/ e = 0
        THEN [ok |-> FALSE, v |-> <<>>, end |-> 0]
        ELSE [ok |-> \A k \in (i + 1)..(e - 1) : DecodeAt(s, i, e, k).ok,
              v |-> DecodeRange(s, i, e, i + 1, e - 1),
              end |-> e]

NoObject == [ok |-> FALSE, members |-> <<>>, end |-> 0]

StringMember(key, v) == [key |-> key, t |-> "string", v |-> v, m |-> <<>>]
ObjectMember(key, m) == [key |-> key, t |-> "object", v |-> <<>>, m |-> m]

\* the members from position i on, up to the closing brace; nested is TRUE
\* inside a member object, whose values are strings only
RECURSIVE DecodeMembers(_, _, _, _)
RECURSIVE DecodeObject(_, _, _)
DecodeMembers(s, i, acc, nested) ==
    LET k == DecodeString(s, i)
    IN  IF ~k.ok \/ k.end + 2 > Len(s) \/ s[k.end + 1] # ":" THEN NoObject
        ELSE LET at == k.end + 2
                 str == DecodeString(s, at)
                 obj == IF ~nested /\ s[at] = "{"
                        THEN DecodeObject(s, at, TRUE) ELSE NoObject
                 ok == IF s[at] = "\"" THEN str.ok ELSE obj.ok
                 end == IF s[at] = "\"" THEN str.end ELSE obj.end
                 member == IF s[at] = "\"" THEN StringMember(k.v, str.v)
                           ELSE ObjectMember(k.v, obj.members)
             IN  IF ~ok \/ end + 1 > Len(s) THEN NoObject
                 ELSE IF s[end + 1] = "}"
                 THEN [ok |-> TRUE, members |-> Append(acc, member),
                       end |-> end + 1]
                 ELSE IF s[end + 1] = ","
                 THEN DecodeMembers(s, end + 2, Append(acc, member), nested)
                 ELSE NoObject

DecodeObject(s, i, nested) ==
    IF i + 1 > Len(s) \/ s[i] # "{" THEN NoObject
    ELSE IF s[i + 1] = "}" THEN [ok |-> TRUE, members |-> <<>>, end |-> i + 1]
    ELSE DecodeMembers(s, i + 1, <<>>, nested)

\* json.Unmarshal(line): ok when line is exactly one JSON object
jsonUnmarshal(line) ==
    LET r == DecodeObject(line, 1, FALSE)
    IN  [ok |-> r.ok /\ r.end = Len(line), members |-> r.members]

\* a member of a decoded object is a string member named key
HasString(members, key) ==
    \E i \in 1..Len(members) : members[i].key = key /\ members[i].t = "string"

\* the value of the last string member named key (the one a decoder keeps)
StringOf(members, key) ==
    LET at == {i \in 1..Len(members) :
                  members[i].key = key /\ members[i].t = "string"}
    IN  members[CHOOSE i \in at : \A j \in at : j <= i].v

\* the members of the member object named key, <<>> when there is none
ObjectOf(members, key) ==
    LET at == {i \in 1..Len(members) :
                  members[i].key = key /\ members[i].t = "object"}
    IN  IF at = {} THEN <<>>
        ELSE members[CHOOSE i \in at : \A j \in at : j <= i].m

(***************************************************************************)
(* The properties.                                                         *)
(***************************************************************************)
KeyMessage == <<"m", "e", "s", "s", "a", "g", "e">>
KeyLevel == <<"l", "e", "v", "e", "l">>
KeyCaller == <<"c", "a", "l", "l", "e", "r">>
KeyExtra == <<"e", "x", "t", "r", "a">>

\* the log calls made so far
Calls == {history[i] : i \in 1..Len(history)}

FormatMethods ==
    {"Infof", "Warnf", "Errorf", "Debugf",
     "InfoCtxf", "WarnCtxf", "ErrorCtxf", "DebugCtxf"}

\* the level name of a public method
MethodLevel(method) ==
    IF method \in {"Info", "Infof", "InfoCtx", "InfoCtxf"} THEN INFO
    ELSE IF method \in {"Warn", "Warnf", "WarnCtx", "WarnCtxf"} THEN WARN
    ELSE IF method \in {"Error", "Errorf", "ErrorCtx", "ErrorCtxf"} THEN ERROR
    ELSE DEBUG

\* the string form of the first argument of a call (after the context)
FirstArgument(call) ==
    IF Len(call.args) = 0 THEN <<>> ELSE Sprint(call.args[1])

\* the message a call asks for: the first argument, or for an f variant
\* the format with its operands filled in
MessageOf(call) ==
    IF call.method \in FormatMethods
    THEN FormattedMessage(call.args[1].s, Tail(call.args))
    ELSE FirstArgument(call)

\* the call h returned and its record reached a sink
Emitted(h) ==
    /\ ~h.o.panic
    /\ \E n \in SinkNames : \E i \in 1..Len(sinks[n]) : sinks[n][i] = h.o.out

\* the record of h is one JSON object with this message and the level of
\* the method called
JSONRecord(h, message) ==
    /\ Emitted(h)
    /\ LET r == jsonUnmarshal(h.o.line)
       IN  /\ r.ok
           /\ HasString(r.members, KeyMessage)
           /\ StringOf(r.members, KeyMessage) = message
           /\ HasString(r.members, KeyLevel)
           /\ StringOf(r.members, KeyLevel) = MethodLevel(h.call.method)

\* C1 as stated: in JSON mode every leveled call emits one valid JSON
\* object whose "message" is the string form of the first argument and
\* whose "level" is the level name of the method.
C1_FirstArgument ==
    \A h \in Calls : h.o.cfg.jsonMode => JSONRecord(h, FirstArgument(h.call))

\* C1 amended: in JSON mode every leveled call emits one valid JSON object
\* whose "level" is the level name of the method and whose "message" is the
\* string form of the first argument for the plain and Ctx variants, and
\* the format with its operands filled in for the f and Ctxf variants.
C1_Message ==
    \A h \in Calls : h.o.cfg.jsonMode => JSONRecord(h, MessageOf(h.call))

\* a JSON record of Infof("n=%d", 7) was emitted with the message "n=7"
C1_Witness ==
    \E h \in Calls :
        /\ h.o.cfg.jsonMode
        /\ h.call.method = "Infof"
        /\ Emitted(h)
        /\ FirstArgument(h.call) # MessageOf(h.call)
        /\ StringOf(jsonUnmarshal(h.o.line).members, KeyMessage)
             = <<"n", "=", "7">>

\* the bytes of a colour code
ColourBytes == {ESC, "[", "m"} \cup {Digits[i] : i \in 1..10}

\* line holds key=id, the key possibly followed by colour codes
TextHasField(line, key, id) ==
    \E p \in 1..Len(line) :
        /\ HasPrefixAt(line, key, p)
        /\ \E q \in (p + Len(key))..(p + Len(key) + 9) :
              /\ HasPrefixAt(line, <<"=">> \o id, q)
              /\ \A m \in (p + Len(key))..(q - 1) : line[m] \in ColourBytes

\* C2 as stated: a call made with a context that carries a valid span emits
\* a record that holds trace_id and span_id, non-empty and equal to the
\* identifiers of the span, in plain text for every template and message
\* and in JSON.
C2_TraceFields ==
    \A h \in Calls :
        IsValid(h.ctx) /\ ~h.o.panic =>
            LET traceID == HexString(h.ctx.traceID)
                spanID == HexString(h.ctx.spanID)
                r == jsonUnmarshal(h.o.line)
            IN  IF h.o.cfg.jsonMode
                THEN /\ r.ok
                     /\ HasString(r.members, KeyTraceID)
                     /\ StringOf(r.members, KeyTraceID) = traceID
                     /\ HasString(r.members, KeySpanID)
                     /\ StringOf(r.members, KeySpanID) = spanID
                ELSE /\ TextHasField(h.o.line, KeyTraceID, traceID)
                     /\ TextHasField(h.o.line, KeySpanID, spanID)

\* the call passes a key without a value as its last argument
OddExtras(call) ==
    /\ call.method \notin FormatMethods
    /\ Len(call.args) >= 2
    /\ Len(call.args) % 2 = 0

\* the complete message text is in the record of h
MessagePresent(h) ==
    IF h.o.cfg.jsonMode
    THEN LET r == jsonUnmarshal(h.o.line)
         IN  /\ r.ok
             /\ HasString(r.members, KeyMessage)
             /\ StringOf(r.members, KeyMessage) = FirstArgument(h.call)
    ELSE Contains(h.o.line, FirstArgument(h.call))

\* C3 as stated: a call with an odd number of trailing extra arguments
\* does not fail, for every template, and its output holds the complete
\* message text.
C3_OddExtras ==
    \A h \in Calls : OddExtras(h.call) => Emitted(h) /\ MessagePresent(h)

\* C4 as stated: no log call panics; for every logger NewLogger builds and
\* every argument list the call returns after emitting a record.
C4_NoPanic == \A h \in Calls : Emitted(h)

\* C5 as stated: with colour off and the template "{level} - {message}",
\* Info(message, extras...) emits a line that starts with "INFO - "
\* followed by the complete message, for every list of extras.
C5_CustomFormat ==
    \A h \in Calls :
        /\ ~h.o.cfg.jsonMode
        /\ ~h.o.cfg.color
        /\ h.o.cfg.format = CustomFormat
        /\ h.call.method = "Info"
        => /\ Emitted(h)
           /\ HasPrefix(h.o.line,
                        <<"I", "N", "F", "O", " ", "-", " ">>
                        \o FirstArgument(h.call))

\* the value a placeholder resolves to in the call h
Resolved(h, placeholder) ==
    IF placeholder = PhAppName THEN h.o.cfg.appName
    ELSE IF placeholder = PhMessage THEN h.o.msg
    ELSE IF placeholder = PhTraceID THEN h.o.traceID
    ELSE IF placeholder = PhSpanID THEN h.o.spanID
    ELSE IF placeholder = PhExtra
    THEN IF h.o.extras = <<>> THEN <<>> ELSE PhExtra
    ELSE placeholder

\* C6 as stated: in plain text a placeholder whose value is empty does not
\* appear in the emitted line.
C6_EmptyPlaceholder ==
    \A h \in Calls :
        ~h.o.cfg.jsonMode /\ ~h.o.panic =>
            \A placeholder \in ReplacementKeys \cup {PhExtra} :
                Resolved(h, placeholder) = <<>>
                    => ~Contains(h.o.line, placeholder)

\* the writes the sink of the logger received
Written == sinks[logger.writer[1]]

\* C7 as stated: after any sequence of log calls the sink has received one
\* write per call, in call order, each one the complete record of its call
\* ending with its own line break.
C7_OneWritePerCall ==
    /\ Len(Written) = Len(history)
    /\ \A i \in 1..Len(history) :
          /\ i <= Len(Written)
          /\ Written[i] = history[i].o.line \o <<"\n">>
          /\ ~Contains(history[i].o.line, <<"\n">>)

\* every task was spawned and has ended
AllFinished ==
    /\ Len(tasks) = NumTasks
    /\ \A i \in 1..Len(tasks) : tasks[i].pc \in {"done", "panicked"}

\* C8 as stated: when NumTasks tasks each make one log call on the shared
\* logger, the sink finally holds exactly NumTasks records, each the
\* complete line of one call, in any order.
C8_OneRecordPerTask ==
    AllFinished =>
        /\ Len(Written) = NumTasks
        /\ \E p \in Perms(1..NumTasks) :
              \A i \in 1..NumTasks :
                  Written[i] = tasks[p[i]].o.line \o <<"\n">>

\* the text after "goroutine_caller=" in a plain-text line, up to the next
\* space: <<>> when the line has no such field
PlainAttribution(line) ==
    LET key == GoroutineCallerKey \o <<"=">>
        p == IndexFrom(line, key, 1)
        start == p + Len(key)
        stops == {k \in start..Len(line) : line[k] = " "}
    IN  IF p = 0 THEN <<>>
        ELSE IF stops = {} THEN SubSeq(line, start, Len(line))
        ELSE SubSeq(line, start,
                    (CHOOSE k \in stops : \A m \in stops : k <= m) - 1)

\* the "goroutine_caller" of the extras of a written record
Attribution(record) ==
    LET line == SubSeq(record, 1, Len(record) - 1)
        r == jsonUnmarshal(line)
        extra == ObjectOf(r.members, KeyExtra)
    IN  IF ~logger.jsonMode THEN PlainAttribution(line)
        ELSE IF r.ok /\ HasString(extra, GoroutineCallerKey)
        THEN StringOf(extra, GoroutineCallerKey)
        ELSE <<>>

Attributed(record) ==
    /\ Len(record) > 1
    /\ Attribution(record) # <<>>
    /\ Attribution(record) # Unknown

AllWrapped == \A i \in 1..Len(tasks) : tasks[i].wrapped

StackOf(h) == LibraryFrames(h.call.method, h.o.cfg.jsonMode) \o userStack

\* C10: every emitted record has a non-empty caller; without a non-empty
\* "goroutine_caller" extra it is the stack-resolved caller, which is
\* "unknown" when the stack yields no frame; the JSON record carries it.
C10_Caller ==
    \A h \in Calls :
        Emitted(h) =>
            /\ h.o.caller # <<>>
            /\ GoroutineCaller(h.o.extras) # <<>>
                  => h.o.caller = GoroutineCaller(h.o.extras)
            /\ GoroutineCaller(h.o.extras) = <<>>
                  => /\ h.o.caller = getCaller(6, StackOf(h))
                     /\ ~getCallerFrame(6, StackOf(h)).ok
                           => h.o.caller = Unknown
            /\ h.o.cfg.jsonMode =>
                  LET r == jsonUnmarshal(h.o.line)
                  IN  /\ r.ok
                      /\ HasString(r.members, KeyCaller)
                      /\ StringOf(r.members, KeyCaller) = h.o.caller
            /\ ~h.o.cfg.jsonMode /\ h.o.cfg.format = defaultFormat
                  => Contains(h.o.line, <<"[">> \o h.o.caller \o <<"]">>)

\* a plain-text record was emitted whose stack yields no frame: its caller
\* is "unknown"
C10_Witness ==
    \E h \in Calls :
        /\ Emitted(h)
        /\ ~h.o.cfg.jsonMode
        /\ GoroutineCaller(h.o.extras) = <<>>
        /\ ~getCallerFrame(6, StackOf(h)).ok
        /\ Contains(h.o.line,
                    <<"[", "u", "n", "k", "n", "o", "w", "n", "]">>)

\* a frame of the logging library (runtime.Callers, its entry, has no file)
IsLibraryFrame(frame) == frame.file = LoggerFile \/ frame.file = <<>>

\* a frame of the runtime or of the test harness
IsInternalFrame(frame) ==
    \/ HasPrefix(frame.function, <<"r", "u", "n", "t", "i", "m", "e", ".">>)
    \/ HasPrefix(frame.function, <<"t", "e", "s", "t", "i", "n", "g", ".">>)

\* the place of the first frame, walking outward, that is neither of the
\* library nor of the runtime nor of the test harness; 0 when there is none
FirstUserFrame(stack) ==
    LET user == {i \in 1..Len(stack) :
                    ~IsLibraryFrame(stack[i]) /\ ~IsInternalFrame(stack[i])}
    IN  IF user = {} THEN 0
        ELSE CHOOSE i \in user : \A j \in user : i <= j

\* the strings that name a frame: basename:line and basename:function:line
CallerForms(frame) ==
    {Base(frame.file) \o <<":">> \o Itoa(frame.line),
     Base(frame.file) \o <<":">> \o frame.function \o <<":">>
        \o Itoa(frame.line)}

\* C11 as stated: the stack-resolved caller of a log call names the first
\* frame, walking outward, that belongs neither to the logging library nor
\* to the runtime nor to the test harness, and is "unknown" when there is
\* no such frame; a call made directly in a user function or in the body of
\* a spawned task is never attributed to a runtime or test-harness frame.
C11_UserFrame ==
    \A h \in Calls :
        Emitted(h) /\ GoroutineCaller(h.o.extras) = <<>> =>
            LET stack == StackOf(h)
                i == FirstUserFrame(stack)
            IN  IF i = 0 THEN h.o.caller = Unknown
                ELSE h.o.caller \in CallerForms(stack[i])

\* strings.HasSuffix(s, p)
HasSuffix(s, p) ==
    Len(p) <= Len(s) /\ HasPrefixAt(s, p, Len(s) - Len(p) + 1)

\* the attribution hint of the call h: its first "goroutine_caller" extra
HintOf(h) == GoroutineCaller(h.o.extras)

\* the parts of a hint before and after its last colon
HintPath(hint) ==
    IF LastIndexByte(hint, ":") = 0 THEN hint
    ELSE SubSeq(hint, 1, LastIndexByte(hint, ":") - 1)

HintSuffix(hint) == SubSeq(hint, LastIndexByte(hint, ":") + 1, Len(hint))

\* s parses as a non-negative integer
IsInteger(s) ==
    /\ Len(s) > 0
    /\ \A i \in 1..Len(s) : \E d \in 1..10 : Digits[d] = s[i]

\* C12 as stated: the caller of a call that carries an attribution hint is
\* derived from the hint by its shape: "path:line" gives
\* basename(path):function:line or basename(path):line, "path:function"
\* gives basename(path):function:line or basename(path):function, a hint
\* without a colon gives its basename; the caller never holds the directory
\* part of the path.
C12_HintShape ==
    \A h \in Calls :
        Emitted(h) /\ HintOf(h) # <<>> =>
            LET hint == HintOf(h)
                base == Base(HintPath(hint))
                suffix == HintSuffix(hint)
            IN  /\ ~Contains(h.o.caller, <<"/">>)
                /\ IF LastIndexByte(hint, ":") = 0
                   THEN h.o.caller = Base(hint)
                   ELSE IF IsInteger(suffix)
                   THEN /\ HasPrefix(h.o.caller, base \o <<":">>)
                        /\ HasSuffix(h.o.caller, <<":">> \o suffix)
                   ELSE HasPrefix(h.o.caller, base \o <<":">> \o suffix)

\* the caller logInternal resolves for the call h when the call is made
\* again with the attribution `hint` as its "goroutine_caller" extra
Renormalized(h, hint) ==
    logInternal(h.o.cfg, h.o.level, h.o.msg,
                <<[key |-> GoroutineCallerKey, value |-> hint]>>,
                h.ctx, clock, StackOf(h), CanonicalOrder).caller

HasExtra(h, key) ==
    IF h.o.cfg.jsonMode
    THEN LET r == jsonUnmarshal(h.o.line)
         IN  r.ok /\ HasString(ObjectOf(r.members, KeyExtra), key)
    ELSE TextHasField(h.o.line, key, <<>>)

\* C14 as stated: no emitted record, plain text or JSON, holds the key
\* "__callsite" among its extras, whatever the arguments of the call are,
\* also when the caller passes a "__callsite" key.
C14_NoCallsite == \A h \in Calls : Emitted(h) => ~HasExtra(h, CallsiteKey)

\* the extras with the attribution key moved to the front
AttributionFirst(extras) ==
    SelectSeq(extras, LAMBDA kv : kv.key = GoroutineCallerKey)
    \o SelectSeq(extras, LAMBDA kv : kv.key # GoroutineCallerKey)

\* C15 as stated: in plain text the extras are rendered as key=value pairs
\* in the order they were passed, except that the "goroutine_caller" key,
\* wherever it stands among the arguments, is rendered first.
C15_AttributionFirst ==
    \A h \in Calls :
        /\ Emitted(h)
        /\ ~h.o.cfg.jsonMode
        /\ h.o.extras # <<>>
        /\ Contains(h.o.cfg.format, PhExtra)
        => Contains(h.o.line,
                    ExtraStr(h.o.cfg, h.o.level, AttributionFirst(h.o.extras)))

\* C16 as stated: the configuration of the logger (sink, template, app
\* name, colour flag, JSON flag, span-attribute flag) is fixed when
\* NewLogger returns: no operation of the public interface, in any
\* sequence, changes any of these fields.
C16_ConfigFixed == [][logger' = logger]_vars

\* the number of places where sub occurs in s
Count(s, sub) ==
    Cardinality({i \in 1..(Len(s) - Len(sub) + 1) : HasPrefixAt(s, sub, i)})

\* the message or an extra of h holds the text key=
TextInCall(h, key) ==
    \/ Contains(h.o.msg, key \o <<"=">>)
    \/ Contains(ExtraStr(h.o.cfg, h.o.level, h.o.extras), key \o <<"=">>)

\* C17 as stated: in plain text, with a valid trace or span identifier, a
\* field the rendered template does not hold is appended at the end of the
\* line after a single space (after nothing when the line is empty
\* otherwise), trace_id before span_id; a field the template rendered
\* through its placeholder is not appended.
C17_TraceAppend ==
    \A h \in Calls :
        ~h.o.cfg.jsonMode /\ ~h.o.panic /\ IsValid(h.ctx) =>
            LET l == h.o.cfg
                line == h.o.line
                trace == TraceField(l, h.o.level, KeyTraceID, h.o.traceID)
                span == TraceField(l, h.o.level, KeySpanID, h.o.spanID)
                viaTrace == Contains(l.format, PhTraceID)
                viaSpan == Contains(l.format, PhSpanID)
                appended ==
                    Join((IF ~viaTrace /\ ~TextInCall(h, KeyTraceID)
                          THEN <<trace>> ELSE <<>>)
                         \o (IF ~viaSpan /\ ~TextInCall(h, KeySpanID)
                             THEN <<span>> ELSE <<>>),
                         <<" ">>)
            IN  /\ appended # <<>> /\ line # appended =>
                      /\ HasSuffix(line, <<" ">> \o appended)
                      /\ Len(line) > Len(appended) + 1
                            => line[Len(line) - Len(appended) - 1] # " "
                /\ viaTrace => Count(line, trace) = 1
                /\ viaSpan => Count(line, span) = 1

\* the value of the last of the pairs named key
LastValue(pairs, key) ==
    LET at == {i \in 1..Len(pairs) : pairs[i].key = key}
    IN  pairs[CHOOSE i \in at : \A j \in at : j <= i].value

\* the key is among the pairs
HasKey(pairs, key) == \E i \in 1..Len(pairs) : pairs[i].key = key

\* C18: in JSON mode with span attributes included, the "extra" map of the
\* record holds every attribute of the span of the context and every
\* explicit extra; under a key that both have, it holds the value of the
\* explicit extra.
C18_SpanAttributes ==
    \A h \in Calls :
        Emitted(h) /\ h.o.cfg.jsonMode /\ h.o.cfg.includeSpanAttrs =>
            LET r == jsonUnmarshal(h.o.line)
                extra == ObjectOf(r.members, KeyExtra)
            IN  /\ r.ok
                /\ \A i \in 1..Len(h.o.extras) :
                      /\ HasString(extra, h.o.extras[i].key)
                      /\ StringOf(extra, h.o.extras[i].key)
                           = LastValue(h.o.extras, h.o.extras[i].key)
                /\ \A i \in 1..Len(h.ctx.attrs) :
                      /\ HasString(extra, h.ctx.attrs[i].key)
                      /\ ~HasKey(h.o.extras, h.ctx.attrs[i].key)
                            => StringOf(extra, h.ctx.attrs[i].key)
                                 = LastValue(h.ctx.attrs, h.ctx.attrs[i].key)

\* a JSON record was emitted for a span with the attributes u=1 and k=s and
\* the explicit extra k=1: its "extra" map holds u=1 and k=1
C18_Witness ==
    \E h \in Calls :
        /\ Emitted(h)
        /\ h.o.cfg.jsonMode
        /\ h.o.cfg.includeSpanAttrs
        /\ HasKey(h.ctx.attrs, <<"u">>)
        /\ HasKey(h.ctx.attrs, <<"k">>)
        /\ LastValue(h.ctx.attrs, <<"k">>) = <<"s">>
        /\ HasKey(h.o.extras, <<"k">>)
        /\ LET extra == ObjectOf(jsonUnmarshal(h.o.line).members, KeyExtra)
           IN  /\ StringOf(extra, <<"u">>) = <<"1">>
               /\ StringOf(extra, <<"k">>) = <<"1">>

\* the logger was built with WithMultiWriterTo(w, file): its writer fans out
\* to two destinations
FansOut == Len(logger.writer) = 2

LevelColour(level) ==
    IF level = INFO THEN <<ESC, "[", "3", "2", "m">>
    ELSE IF level = WARN THEN <<ESC, "[", "3", "3", "m">>
    ELSE IF level = ERROR THEN <<ESC, "[", "3", "1", "m">>
    ELSE <<ESC, "[", "3", "6", "m">>

ResetCode == <<ESC, "[", "0", "m">>

\* C20 as stated: with colour on, in plain text, the level name is emitted
\* as its colour code, the name and the reset code, and every colour code
\* in the line is followed by a reset code before the line ends; with
\* colour off the line holds no escape sequence.
C20_Colour ==
    \A h \in Calls :
        ~h.o.cfg.jsonMode /\ ~h.o.panic =>
            LET line == h.o.line
                level == MethodLevel(h.call.method)
            IN  IF h.o.cfg.color
                THEN /\ Contains(h.o.cfg.format, PhLevel) =>
                           Contains(line,
                                    LevelColour(level) \o level \o ResetCode)
                     /\ \A p \in 1..Len(line) :
                           line[p] = ESC /\ ~HasPrefixAt(line, ResetCode, p)
                               => \E q \in (p + 1)..Len(line) :
                                     HasPrefixAt(line, ResetCode, q)
                ELSE ~Contains(line, <<ESC>>)

\* a space, a tab or a line break
IsWhitespace(c) == c = " " \/ c = "\t" \/ c = "\n"

\* an extra value as the claim renders it
RenderedValue(v) ==
    IF v.t # "string" THEN Sprint(v)
    ELSE IF \E i \in 1..Len(v.s) : IsWhitespace(v.s[i])
    THEN <<"\"">> \o v.s \o <<"\"">>
    ELSE v.s

\* C21 as stated: every extra value is rendered as a string: a string value
\* that holds a space, a tab or a line break is wrapped in double quotes, a
\* string value without whitespace is unchanged, and a value that is not a
\* string is its default string conversion.
C21_Whitespace ==
    \A h \in Calls :
        h.call.method \notin FormatMethods =>
            \A k \in 1..Len(h.o.extras) :
                h.o.extras[k].value = RenderedValue(h.call.args[2 * k + 1])

\* every goroutine was spawned to call getCaller(2) and has returned
AllProbed ==
    /\ Len(tasks) = NumTasks
    /\ \A i \in 1..Len(tasks) : tasks[i].pc = "probed"

\* C22 as stated: when getCaller(2) is called inside each of the
\* concurrently spawned goroutines that run the same function, the callers
\* returned hold at least 2 distinct values and none of them is "unknown".
C22_DistinctCallers ==
    AllProbed =>
        /\ Cardinality({tasks[i].o.caller : i \in 1..Len(tasks)}) >= 2
        /\ \A i \in 1..Len(tasks) : tasks[i].o.caller # Unknown

\* the line of a plain-text Info call made at time t under the
\* configuration l, which no setter touches during the call
SnapshotLine(l, msg, extras, t) ==
    logInternal(l, INFO, msg, extras, Background, t, TaskStack,
                CanonicalOrder).line

\* C30 as stated: every emitted line reflects one configuration snapshot:
\* when SetColor runs next to a plain-text log call that has extras, the
\* line is entirely coloured (level and extra keys) or entirely uncoloured
\* under every interleaving.
C30_Snapshot ==
    \A i \in 1..Len(tasks) :
        tasks[i].pc \in {"writing", "done"} /\ tasks[i].o.extras # <<>> =>
            \E enabled \in BOOLEAN, t \in StartTime..clock :
                tasks[i].o.line =
                    SnapshotLine([tasks[i].o.cfg EXCEPT !.color = enabled],
                                 tasks[i].o.msg, tasks[i].o.extras, t)


(***************************************************************************)
(* C23: parseLogArgs on an argument list of length n returns the string    *)
(* form of the first argument as message and exactly floor((n-1)/2)        *)
(* extras, the i-th extra being (string of argument 2i-1, formatted        *)
(* argument 2i) in argument order, arguments counted from 0; an unpaired   *)
(* last argument is dropped, a key that is not a string is converted to    *)
(* a string, and the empty list gives the empty message and no extras.     *)
(***************************************************************************)
C23_Pairs ==
    \A h \in Calls :
        h.call.method \notin FormatMethods =>
            LET args == h.call.args
                n == Len(args)
            IN  IF n = 0
                THEN h.o.msg = <<>> /\ h.o.extras = <<>>
                ELSE /\ h.o.msg = Sprint(args[1])
                     /\ Len(h.o.extras) = (n - 1) \div 2
                     /\ \A i \in 1..Len(h.o.extras) :
                            /\ h.o.extras[i].key = Sprint(args[2 * i])
                            /\ h.o.extras[i].value =
                                   formatValue(args[2 * i + 1])

\* a call was made with an integer key and an unpaired last argument, and
\* its extras are the one pair ("5", "x")
C23_Witness ==
    \E h \in Calls :
        /\ h.call.method \notin FormatMethods
        /\ Len(h.call.args) = 4
        /\ h.call.args[2].t # "string"
        /\ h.o.extras = <<[key |-> <<"5">>, value |-> <<"x">>]>>


\* the value of the "goroutine_caller" extra as the record of h holds it,
\* <<>> when the record holds none
EmittedHint(h) ==
    IF h.o.cfg.jsonMode
    THEN LET r == jsonUnmarshal(h.o.line)
             extra == ObjectOf(r.members, KeyExtra)
         IN  IF r.ok /\ HasString(extra, GoroutineCallerKey)
             THEN StringOf(extra, GoroutineCallerKey)
             ELSE <<>>
    ELSE PlainAttribution(h.o.line)

\* the value of the first "goroutine_caller" pair among the extras passed
FirstHint(extras) ==
    LET at == {i \in 1..Len(extras) : extras[i].key = GoroutineCallerKey}
    IN  extras[CHOOSE i \in at : \A j \in at : i <= j].value

\* C24 as stated: in every emitted record that carries a non-empty
\* "goroutine_caller" extra, the caller field equals the emitted value of
\* that extra, the stack-resolved caller is not used, and when several
\* "goroutine_caller" extras are passed the first one decides.
C24_HintIsCaller ==
    \A h \in Calls :
        Emitted(h) /\ EmittedHint(h) # <<>> =>
            /\ h.o.caller = EmittedHint(h)
            /\ h.o.caller = FirstHint(h.o.extras)


\* an option that sets the sink
IsSinkSetting(opt) ==
    \/ opt.op \in {"WithRotatingFile", "WithMultiWriterTo"}
    \/ opt.op = "WithWriter" /\ opt.w # NilWriter

\* the sink a sink-setting option names
SinkOf(opt) ==
    IF opt.op = "WithWriter" THEN opt.w
    ELSE IF opt.op = "WithRotatingFile" THEN <<opt.filename>>
    ELSE (IF opt.w = NilWriter THEN <<"nil">> ELSE opt.w) \o <<opt.filename>>

\* the sink of the last sink-setting option of a list, standard output
\* when the list has none
LastSink(opts) ==
    LET at == {i \in 1..Len(opts) : IsSinkSetting(opts[i])}
    IN  IF at = {} THEN <<"stdout">>
        ELSE SinkOf(opts[CHOOSE i \in at : \A j \in at : j <= i])

HasOption(opts, op) == \E i \in 1..Len(opts) : opts[i].op = op

(***************************************************************************)
(* C25: NewLogger starts from the defaults (standard output, the default   *)
(* template, app name "MyApp") and applies its options in argument order:  *)
(* for every option list the sink in use is the one set by the last        *)
(* sink-setting option (WithWriter with a non-nil writer,                  *)
(* WithRotatingFile, WithMultiWriter, WithMultiWriterTo), WithWriter(nil)  *)
(* leaves the sink set so far unchanged, and every record of a call that   *)
(* returned is in exactly the sinks of that writer.                        *)
(***************************************************************************)
C25_LastSinkWins ==
    \A opts \in SinkOptionLists :
        logger = NewLogger(opts) =>
            /\ logger.writer = LastSink(opts)
            /\ ~HasOption(opts, "WithFormat") => logger.format = defaultFormat
            /\ ~HasOption(opts, "WithAppName") =>
                   logger.appName = <<"M", "y", "A", "p", "p">>
            /\ \A h \in Calls :
                   ~h.o.panic =>
                       \A n \in SinkNames :
                           (\E i \in 1..Len(sinks[n]) : sinks[n][i] = h.o.out)
                           <=> (\E k \in 1..Len(LastSink(opts)) :
                                    LastSink(opts)[k] = n)

\* a logger built from a list that ends in WithWriter(nil) after a buffer
\* was set over a file wrote a record, and the record is in the buffer only
C25_Witness ==
    \E opts \in SinkOptionLists :
        /\ Len(opts) >= 3
        /\ opts[1].op = "WithRotatingFile"
        /\ \E i \in 1..Len(opts) : opts[i] = WithWriter(NilWriter)
        /\ logger = NewLogger(opts)
        /\ \E h \in Calls : ~h.o.panic /\ sinks["buf"] = <<h.o.out>>
        /\ sinks["stdout"] = <<>>
        /\ sinks[LogFile] = <<>>


\* the line formatMessage gives for the i-th call made when its loop takes
\* the iteration order `order`
LineInOrder(i, order) ==
    LET o == history[i].o
    IN  formatMessage(o.cfg, o.level, o.msg,
                      ExtraStr(o.cfg, o.level, o.extras), StartTime + i - 1,
                      o.traceID, o.spanID, o.caller, order).s

\* C26 as stated: plain-text rendering is deterministic; formatMessage
\* with the same configuration, level, message, extras, timestamp,
\* trace/span identifiers and caller produces the same line whatever order
\* the placeholder substitutions are applied in, also when the message,
\* app name or caller text itself contains a placeholder token.
C26_Deterministic ==
    \A i \in 1..Len(history) :
        ~history[i].o.json /\ ~history[i].o.panic =>
            \A order \in Perms(ReplacementKeys) :
                LineInOrder(i, order) = history[i].o.line


\* the template rendered in one pass from left to right: each placeholder
\* of the template is replaced by its value and the text inserted is not
\* looked at again
RECURSIVE RenderOnce(_, _, _)
RenderOnce(format, i, values) ==
    IF i > Len(format) THEN <<>>
    ELSE LET hit == {k \in DOMAIN values : HasPrefixAt(format, k, i)}
         IN  IF hit = {}
             THEN <<format[i]>> \o RenderOnce(format, i + 1, values)
             ELSE LET k == CHOOSE k \in hit : TRUE
                  IN  values[k] \o RenderOnce(format, i + Len(k), values)

\* the value of every placeholder for the i-th call made
ValuesOf(i) ==
    LET o == history[i].o
        repl == Replacements(o.cfg, o.level, o.msg, StartTime + i - 1,
                             o.traceID, o.spanID, o.caller)
    IN  [k \in ReplacementKeys \cup {PhExtra} |->
            IF k = PhExtra THEN ExtraStr(o.cfg, o.level, o.extras)
            ELSE repl[k]]

\* C27 as stated: text supplied by the caller is emitted verbatim in
\* plain-text mode; placeholder tokens inside the message, the app name,
\* the caller hint or an extra value are never themselves substituted, so
\* the rendered line equals the template with each placeholder replaced
\* once by its value.  Stated for the calls that have extras and no span,
\* where every placeholder has a value and nothing is appended or cut.
C27_Verbatim ==
    \A i \in 1..Len(history) :
        /\ ~history[i].o.json
        /\ ~history[i].o.panic
        /\ history[i].o.extras # <<>>
        /\ history[i].o.traceID = <<>>
        => history[i].o.line =
               RenderOnce(history[i].o.cfg.format, 1, ValuesOf(i))


\* the ANSI escape sequences a line can hold
EscapeCodes ==
    {ResetCode} \cup {LevelColour(lv) : lv \in {INFO, WARN, ERROR, DEBUG}}

\* the byte at position i of s belongs to an escape sequence
InEscape(s, i) ==
    \E code \in EscapeCodes :
        \E j \in (i - Len(code) + 1)..i :
            j >= 1 /\ HasPrefixAt(s, code, j)

\* s without its escape sequences
StripANSI(s) ==
    LET at == SelectSeq([i \in 1..Len(s) |-> i], LAMBDA i : ~InEscape(s, i))
    IN  [k \in 1..Len(at) |-> s[at[k]]]

\* the line of the i-th call made, had the logger not coloured, for one
\* of the iteration orders of the replacements map
PlainLines(i) ==
    LET h == history[i]
        l == [h.o.cfg EXCEPT !.color = FALSE]
        t == StartTime + i - 1
    IN  {logInternal(l, h.o.level, h.o.msg, h.o.extras, h.ctx, t,
                     StackOf(h), order).line :
            order \in LogOrders(l, h.o.level, h.o.msg, h.o.extras, h.ctx, t,
                                StackOf(h))}

\* C28 as stated: colour changes only the decoration of a plain-text line;
\* for every log call, the line produced with colour enabled, all its ANSI
\* escape sequences removed, is exactly the line produced with colour
\* disabled for the same inputs (a trace_id or span_id rendered through
\* its template placeholder appears once in both).  Stated for the calls
\* that have extras, where no byte is cut from the end of the line.
C28_ColourOnlyDecorates ==
    \A i \in 1..Len(history) :
        /\ ~history[i].o.json
        /\ ~history[i].o.panic
        /\ history[i].o.cfg.color
        /\ history[i].o.extras # <<>>
        => StripANSI(history[i].o.line) \in PlainLines(i)


\* the stack-resolved caller of the call h had the logger been in JSON
\* mode (json TRUE) or in plain-text mode (json FALSE), on the same stack
CallerInMode(h, json) ==
    getCaller(6, LibraryFrames(h.call.method, json) \o userStack)

\* C29 as stated: the stack-resolved caller of a log call does not depend
\* on the output mode; for the same call stack the call with JSON mode
\* enabled and the call with JSON mode disabled are attributed to the same
\* stack frame, and that frame is the one that invoked the public log
\* method.
C29_ModeIndependent ==
    \A h \in Calls :
        Emitted(h) /\ GoroutineCaller(h.o.extras) = <<>> =>
            /\ CallerInMode(h, TRUE) = CallerInMode(h, FALSE)
            /\ h.o.caller \in CallerForms(userStack[1])

====
